---- MODULE Spec2Model ----
(***************************************************************************)
(* A model of the magnetizing floor-plan generator: the integer grid       *)
(* buffer, the discrete "magnetizing" solver and the gene collection of    *)
(* the continuous refiner.                                                 *)
(*                                                                         *)
(* Numbers.  Grid coordinates, cell values, room sizes and room indices    *)
(* are the program's integers.  Aspect ratios and the mutation rate of the *)
(* discrete solver are JavaScript doubles in the program; here they are    *)
(* exact rationals, given in tenths (a ratio of 1.5 is 15).  Euclidean     *)
(* distances are kept in hundredths, rounded down.  Every number of the    *)
(* continuous refiner (coordinates, sizes, areas, ratios, rates, pressure  *)
(* and fitness) is a double in the program and a count of hundredths here, *)
(* each product, quotient and root rounded down to a hundredth.            *)
(***************************************************************************)
EXTENDS Integers, Sequences, FiniteSets, TLC

VARIABLES solver, twin, probe, collection, peer, mathRandom

\* The variables of the continuous refiner: two gene collections and the
\* state of the runtime's Math.random, which all genes draw from
genePart == <<collection, peer, mathRandom>>

vars == <<solver, twin, probe, genePart>>

(***************************************************************************)
(* Cell states and defaults (constants.ts).                                *)
(***************************************************************************)
CELL_EMPTY == 0
CELL_CORRIDOR == -1
CELL_OUT_OF_BOUNDS == -2

\* An optional value: <<>> when undefined, <<v>> when given; Opt is ??
Opt(o, default) == IF o = <<>> THEN default ELSE o[1]

Min(a, b) == IF a < b THEN a ELSE b
Max(a, b) == IF a > b THEN a ELSE b

RECURSIVE SeqMin(_, _)
SeqMin(xs, k) ==
  IF k = Len(xs) THEN xs[k] ELSE Min(xs[k], SeqMin(xs, k + 1))

RECURSIVE SeqMax(_, _)
SeqMax(xs, k) ==
  IF k = Len(xs) THEN xs[k] ELSE Max(xs[k], SeqMax(xs, k + 1))

\* Math.ceil(a / b) for integers a >= 0, b > 0
CeilDiv(a, b) == (a + b - 1) \div b

(***************************************************************************)
(* GridBuffer: width, height and the row-major Int32Array cells.           *)
(***************************************************************************)
NewGrid(w, h) ==
  [width |-> w, height |-> h, cells |-> [k \in 0 .. (w * h - 1) |-> CELL_EMPTY]]

\* index that steps a row by the height of the grid
indexByHeight(g, x, y) == y * g.height + x

index(g, x, y) == y * g.width + x

InRange(g, x, y) == ~(x < 0 \/ x >= g.width \/ y < 0 \/ y >= g.height)

get(g, x, y) ==
  IF x < 0 \/ x >= g.width \/ y < 0 \/ y >= g.height
    THEN CELL_OUT_OF_BOUNDS
    ELSE g.cells[index(g, x, y)]

\* set without the range test: it writes wherever the index falls in the array
setUnguarded(g, x, y, value) ==
  IF index(g, x, y) \in DOMAIN g.cells
    THEN [g EXCEPT !.cells[index(g, x, y)] = value]
    ELSE g

set(g, x, y, value) ==
  IF x < 0 \/ x >= g.width \/ y < 0 \/ y >= g.height
    THEN g
    ELSE [g EXCEPT !.cells[index(g, x, y)] = value]

clone(g) == [width |-> g.width, height |-> g.height, cells |-> g.cells]

\* clear that spares the cells out of bounds
clearInside(g) ==
  [g EXCEPT !.cells = [k \in DOMAIN g.cells |->
                         IF g.cells[k] = CELL_OUT_OF_BOUNDS THEN g.cells[k] ELSE CELL_EMPTY]]

clear(g) == [g EXCEPT !.cells = [k \in DOMAIN g.cells |-> CELL_EMPTY]]

CellX(g, k) == k % g.width
CellY(g, k) == k \div g.width

\* One edge (i, j) of the ray casting test at the point (px/2, py/2): the
\* vertices are integers, so both sides are doubled and the division by
\* (yj - yi) is cleared by cross-multiplication.
EdgeCrosses(px, py, pi, pj) ==
  LET xi == 2 * pi.x
      yi == 2 * pi.y
      xj == 2 * pj.x
      yj == 2 * pj.y
  IN  /\ (yi > py) # (yj > py)
      /\ IF yj - yi > 0
           THEN (px - xi) * (yj - yi) < (xj - xi) * (py - yi)
           ELSE (px - xi) * (yj - yi) > (xj - xi) * (py - yi)

\* isPointInPolygon at a cell centre: an odd number of crossing edges.
isPointInPolygon(px, py, polygon) ==
  LET n == Len(polygon)
      crossing == {i \in 1 .. n :
                     EdgeCrosses(px, py, polygon[i],
                                 polygon[IF i = 1 THEN n ELSE i - 1])}
  IN  Cardinality(crossing) % 2 = 1

\* rasterizePolygon without the test of the vertex count
rasterizePolygonAnyLength(g, polygon) ==
  LET xs == [i \in 1 .. Len(polygon) |-> polygon[i].x]
      ys == [i \in 1 .. Len(polygon) |-> polygon[i].y]
      startX == Max(0, SeqMin(xs, 1))
      endX == Min(g.width - 1, SeqMax(xs, 1))
      startY == Max(0, SeqMin(ys, 1))
      endY == Min(g.height - 1, SeqMax(ys, 1))
  IN  [g EXCEPT !.cells =
         [k \in DOMAIN g.cells |->
            LET x == CellX(g, k)
                y == CellY(g, k)
            IN  IF x < startX \/ x > endX \/ y < startY \/ y > endY
                  THEN CELL_OUT_OF_BOUNDS
                  ELSE IF ~isPointInPolygon(2 * x + 1, 2 * y + 1, polygon)
                         THEN CELL_OUT_OF_BOUNDS
                         ELSE g.cells[k]]]

rasterizePolygon(g, polygon) ==
  IF Len(polygon) < 3
    THEN g
    ELSE
      LET xs == [i \in 1 .. Len(polygon) |-> polygon[i].x]
          ys == [i \in 1 .. Len(polygon) |-> polygon[i].y]
          startX == Max(0, SeqMin(xs, 1))
          endX == Min(g.width - 1, SeqMax(xs, 1))
          startY == Max(0, SeqMin(ys, 1))
          endY == Min(g.height - 1, SeqMax(ys, 1))
      IN  [g EXCEPT !.cells =
             [k \in DOMAIN g.cells |->
                LET x == CellX(g, k)
                    y == CellY(g, k)
                IN  IF x < startX \/ x > endX \/ y < startY \/ y > endY
                      THEN CELL_OUT_OF_BOUNDS
                      ELSE IF ~isPointInPolygon(2 * x + 1, 2 * y + 1, polygon)
                             THEN CELL_OUT_OF_BOUNDS
                             ELSE g.cells[k]]]

(***************************************************************************)
(* DiscreteSolver: footprints and the placement validity test.             *)
(* A solver s is a record; every method is an operator from the solver     *)
(* (and its arguments) to the value it returns or the solver it leaves.    *)
(***************************************************************************)
RECURSIVE SeqSum(_, _)
SeqSum(xs, k) == IF k > Len(xs) THEN 0 ELSE xs[k] + SeqSum(xs, k + 1)

\* Math.floor(Math.sqrt(n)) for n >= 0, by bisection on [lo, hi]
RECURSIVE SqrtBetween(_, _, _)
SqrtBetween(n, lo, hi) ==
  IF lo >= hi THEN lo
  ELSE LET mid == (lo + hi + 1) \div 2
       IN  IF mid * mid <= n THEN SqrtBetween(n, mid, hi)
                             ELSE SqrtBetween(n, lo, mid - 1)

FloorSqrt(n) == SqrtBetween(n, 0, Min(n, 46340))

Pt(x, y) == [x |-> x, y |-> y]

\* getRoomFootprint(...).corridorCells, as the set of its points
corridorCells(x, y, width, height, rule) ==
  IF rule = 1 THEN
    {Pt(x + dx, y + height) : dx \in 0 .. (width - 1)}
  ELSE IF rule = 2 THEN
    {Pt(x + dx, y + height) : dx \in 0 .. width}
      \cup {Pt(x + width, y + dy) : dy \in 0 .. (height - 1)}
  ELSE IF rule >= 3 THEN
    {Pt(x + dx, y - 1) : dx \in (0 - 1) .. width}
      \cup {Pt(x + dx, y + height) : dx \in (0 - 1) .. width}
      \cup {Pt(x - 1, y + dy) : dy \in 0 .. (height - 1)}
      \cup {Pt(x + width, y + dy) : dy \in 0 .. (height - 1)}
  ELSE {}

Neighbors4(x, y) == {Pt(x + 1, y), Pt(x - 1, y), Pt(x, y + 1), Pt(x, y - 1)}

checkConnectivityAlways(g, cells) == TRUE

checkConnectivity(g, cells) ==
  IF cells = {} THEN TRUE
  ELSE \E cell \in cells :
         \E nb \in Neighbors4(cell.x, cell.y) : get(g, nb.x, nb.y) = CELL_CORRIDOR

coreCells(x, y, width, height) ==
  {Pt(x + dx, y + dy) : dx \in 0 .. (width - 1), dy \in 0 .. (height - 1)}

canPlaceRoom(g, x, y, width, height, corridorRule) ==
  LET footprint == corridorCells(x, y, width, height, corridorRule)
  IN  /\ \A c \in coreCells(x, y, width, height) : get(g, c.x, c.y) = CELL_EMPTY
      /\ \A c \in footprint :
           get(g, c.x, c.y) \in {CELL_EMPTY, CELL_CORRIDOR}
      /\ checkConnectivity(g, footprint)

Touches(g, x, y) ==
  IF get(g, x, y) # CELL_EMPTY /\ get(g, x, y) # CELL_OUT_OF_BOUNDS THEN 1 ELSE 0

calculateCompactness(g, x, y, width, height) ==
  SeqSum([dx \in 1 .. width |->
            Touches(g, x + dx - 1, y - 1) + Touches(g, x + dx - 1, y + height)], 1)
  + SeqSum([dy \in 1 .. height |->
              Touches(g, x - 1, y + dy - 1) + Touches(g, x + width, y + dy - 1)], 1)

\* placedRooms is a Map: here the sequence of its values in insertion order
Has(placed, id) == \E i \in 1 .. Len(placed) : placed[i].id = id

Lookup(placed, id) == placed[CHOOSE i \in 1 .. Len(placed) : placed[i].id = id]

\* Map.set: a present key keeps its place, a new key goes last
MapSet(placed, rec) ==
  IF Has(placed, rec.id)
    THEN [i \in 1 .. Len(placed) |-> IF placed[i].id = rec.id THEN rec ELSE placed[i]]
    ELSE Append(placed, rec)

MapDelete(placed, id) == SelectSeq(placed, LAMBDA r : r.id # id)

\* The distance between the centres of two rectangles, in hundredths; the
\* centres are kept doubled (2x + width), hence the factor 100 * 100 / 4.
CentreDistance(ax2, ay2, bx2, by2) ==
  FloorSqrt(((ax2 - bx2) * (ax2 - bx2) + (ay2 - by2) * (ay2 - by2)) * 2500)

\* calculateAdjacencyScore, in hundredths; (cx2, cy2) is the doubled centre
calculateAdjacencyScore(s, roomId, cx2, cy2) ==
  LET required == SelectSeq(s.adjacencies, LAMBDA adj : adj.a = roomId \/ adj.b = roomId)
      neighborId(adj) == IF adj.a = roomId THEN adj.b ELSE adj.a
      found == SelectSeq(required, LAMBDA adj : Has(s.placedRooms, neighborId(adj)))
      dist == [i \in 1 .. Len(found) |->
                 LET nb == Lookup(s.placedRooms, neighborId(found[i]))
                 IN  CentreDistance(cx2, cy2, 2 * nb.x + nb.width, 2 * nb.y + nb.height)
                       * found[i].weight]
  IN  IF Len(found) > 0 THEN SeqSum(dist, 1) \div Len(found) ELSE 0

\* roomIndexMap.get(id) || 0: the map is filled in list order, so the last
\* room carrying an id gives its index
roomIndexOf(rooms, id) ==
  LET at == {i \in 1 .. Len(rooms) : rooms[i].id = id}
  IN  IF at = {} THEN 0 ELSE CHOOSE i \in at : \A j \in at : j <= i

placeRoom(s, room, x, y, width, height) ==
  LET roomIndex == roomIndexOf(s.rooms, room.id)
      footprint == corridorCells(x, y, width, height, room.corridorRule)
      core == coreCells(x, y, width, height)
      stamped == [k \in DOMAIN s.grid.cells |->
                    LET c == Pt(CellX(s.grid, k), CellY(s.grid, k))
                    IN  IF c \in footprint THEN CELL_CORRIDOR
                        ELSE IF c \in core THEN roomIndex
                        ELSE s.grid.cells[k]]
  IN  [s EXCEPT !.grid.cells = stamped,
                !.placedRooms =
                   MapSet(@, [id |-> room.id, x |-> x, y |-> y, width |-> width,
                              height |-> height, roomIndex |-> roomIndex,
                              corridorRule |-> room.corridorRule])]

\* removeRoom that forgets the room but leaves its cells stamped
removeRoomKeepCore(s, roomId) ==
  IF ~Has(s.placedRooms, roomId) THEN s
  ELSE [s EXCEPT !.placedRooms = MapDelete(@, roomId)]

removeRoom(s, roomId) ==
  IF ~Has(s.placedRooms, roomId) THEN s
  ELSE
    LET room == Lookup(s.placedRooms, roomId)
        core == coreCells(room.x, room.y, room.width, room.height)
        footprint == IF room.corridorRule # 0
                       THEN corridorCells(room.x, room.y, room.width, room.height,
                                          room.corridorRule)
                       ELSE {}
        cleared == [k \in DOMAIN s.grid.cells |->
                      IF Pt(CellX(s.grid, k), CellY(s.grid, k)) \in core
                        THEN CELL_EMPTY ELSE s.grid.cells[k]]
    IN  [s EXCEPT !.grid.cells =
                     [k \in DOMAIN cleared |->
                        IF /\ Pt(CellX(s.grid, k), CellY(s.grid, k)) \in footprint
                           /\ cleared[k] = CELL_CORRIDOR
                          THEN CELL_EMPTY ELSE cleared[k]],
                  !.placedRooms = MapDelete(@, roomId)]

(***************************************************************************)
(* Random (utils/Random.js): a seeded generator whose state steps          *)
(* deterministically; next() is state / RngMod in [0, 1).                  *)
(***************************************************************************)
RngMod == 8

RngNext(r) == (r * 5 + 3) % RngMod

\* rng.shuffle: Fisher-Yates from the last index down; returns the
\* shuffled array and the generator's state after it
RECURSIVE ShuffleFrom(_, _, _)
ShuffleFrom(arr, i, r) ==
  IF i <= 1 THEN [arr |-> arr, rng |-> r]
  ELSE LET r2 == RngNext(r)
           j == ((r2 * i) \div RngMod) + 1
       IN  ShuffleFrom([arr EXCEPT ![i] = arr[j], ![j] = arr[i]], i - 1, r2)

shuffle(arr, r) == ShuffleFrom(arr, Len(arr), r)

\* Math.ceil(Math.sqrt(target / num) / res): the least w with
\* (w * res)^2 * num >= target
RECURSIVE CeilSqrtFrom(_, _, _, _)
CeilSqrtFrom(w, res, num, target) ==
  IF (w * res) * (w * res) * num >= target THEN w
  ELSE CeilSqrtFrom(w + 1, res, num, target)

NoCandidate == [found |-> FALSE, x |-> 0, y |-> 0, width |-> 0, height |-> 0, score |-> 0]

\* The scan of findBestPlacement from position number k on (y outer, x inner)
RECURSIVE ScanFrom(_, _, _, _, _, _)
ScanFrom(s, room, width, height, k, best) ==
  LET nx == s.grid.width - width
      ny == s.grid.height - height
  IN  IF nx <= 0 \/ ny <= 0 \/ k >= nx * ny THEN best
      ELSE
        LET x == k % nx
            y == k \div nx
        IN  IF ~canPlaceRoom(s.grid, x, y, width, height, room.corridorRule)
              THEN ScanFrom(s, room, width, height, k + 1, best)
              ELSE
                LET compactness == calculateCompactness(s.grid, x, y, width, height)
                    adjacencyDist ==
                      calculateAdjacencyScore(s, room.id, 2 * x + width, 2 * y + height)
                    score == compactness * s.config.weights.compactness * 100
                               - adjacencyDist * s.config.weights.adjacency
                IN  IF ~best.found \/ score > best.score
                      THEN ScanFrom(s, room, width, height, k + 1,
                                    [found |-> TRUE, x |-> x, y |-> y, width |-> width,
                                     height |-> height, score |-> score])
                      ELSE ScanFrom(s, room, width, height, k + 1, best)

\* findBestPlacement that takes the first position of the grid untested
findBestPlacementUntested(s, room) ==
  LET r2 == RngNext(s.rng)
      num == room.minRatio * RngMod + r2 * (room.maxRatio - room.minRatio)
      res == s.config.gridResolution
      width == CeilSqrtFrom(0, res, num, room.targetArea * 10 * RngMod)
      height == CeilDiv(room.targetArea, width * res * res)
  IN  [rng |-> r2,
       candidate |-> IF room.targetArea <= 0 \/ num <= 0 THEN NoCandidate
                     ELSE [found |-> TRUE, x |-> 0, y |-> 0, width |-> width,
                           height |-> height, score |-> 0]]

\* findBestPlacement: the candidate (or none) and the generator's state.
\* ratio = minRatio + next() * (maxRatio - minRatio), in tenths, is
\* num / RngMod; a targetArea or ratio that is not positive gives NaN sizes,
\* for which no loop iteration runs.
findBestPlacement(s, room) ==
  LET r2 == RngNext(s.rng)
      num == room.minRatio * RngMod + r2 * (room.maxRatio - room.minRatio)
      res == s.config.gridResolution
      width == CeilSqrtFrom(0, res, num, room.targetArea * 10 * RngMod)
      height == CeilDiv(room.targetArea, width * res * res)
  IN  [rng |-> r2,
       candidate |-> IF room.targetArea <= 0 \/ num <= 0 THEN NoCandidate
                     ELSE ScanFrom(s, room, width, height, 0, NoCandidate)]

\* calculateGlobalScore, in hundredths
calculateGlobalScore(s) ==
  LET both == SelectSeq(s.adjacencies,
                        LAMBDA adj : Has(s.placedRooms, adj.a) /\ Has(s.placedRooms, adj.b))
      dist == [i \in 1 .. Len(both) |->
                 LET roomA == Lookup(s.placedRooms, both[i].a)
                     roomB == Lookup(s.placedRooms, both[i].b)
                 IN  CentreDistance(2 * roomA.x + roomA.width, 2 * roomA.y + roomA.height,
                                    2 * roomB.x + roomB.width, 2 * roomB.y + roomB.height)
                       * both[i].weight]
  IN  Len(s.placedRooms) * 100 * 100 - SeqSum(dist, 1)

countNonEmptyNeighbors(g, x, y) ==
  Cardinality({nb \in Neighbors4(x, y) :
                 get(g, nb.x, nb.y) # CELL_EMPTY /\ get(g, nb.x, nb.y) # CELL_OUT_OF_BOUNDS})

\* One sweep of pruneDeadEnds from cell k on, in place and in row-major order
RECURSIVE PruneSweep(_, _)
PruneSweep(g, k) ==
  IF k >= g.width * g.height THEN g
  ELSE IF /\ get(g, CellX(g, k), CellY(g, k)) = CELL_CORRIDOR
          /\ countNonEmptyNeighbors(g, CellX(g, k), CellY(g, k)) <= 1
         THEN PruneSweep(set(g, CellX(g, k), CellY(g, k), CELL_EMPTY), k + 1)
         ELSE PruneSweep(g, k + 1)

\* pruneDeadEnds that stops after its first sweep
pruneOneSweep(g) == PruneSweep(g, 0)

RECURSIVE pruneDeadEnds(_)
pruneDeadEnds(g) ==
  LET swept == PruneSweep(g, 0)
  IN  IF swept = g THEN g ELSE pruneDeadEnds(swept)

\* The start cell validateCorridorNetwork reads from the merged config
startCell(g, config) ==
  IF config.startPoint # <<>>
    THEN Pt(config.startPoint[1].x, config.startPoint[1].y)
    ELSE Pt(g.width \div 2, g.height \div 2)

\* The flood fill of validateCorridorNetwork: the queue, the visited keys
\* (y * width + x, also for points outside the grid) and connectedCount
RECURSIVE FloodFill(_, _, _, _)
FloodFill(g, queue, visited, connectedCount) ==
  IF queue = <<>> THEN connectedCount
  ELSE
    LET current == Head(queue)
        key == current.y * g.width + current.x
    IN  IF key \in visited THEN FloodFill(g, Tail(queue), visited, connectedCount)
        ELSE IF get(g, current.x, current.y) = CELL_CORRIDOR
          THEN
            LET neighbors == <<Pt(current.x + 1, current.y), Pt(current.x - 1, current.y),
                               Pt(current.x, current.y + 1), Pt(current.x, current.y - 1)>>
                pushed == SelectSeq(neighbors,
                            LAMBDA nb : (nb.y * g.width + nb.x) \notin (visited \cup {key}))
            IN  FloodFill(g, Tail(queue) \o pushed, visited \cup {key}, connectedCount + 1)
          ELSE FloodFill(g, Tail(queue), visited \cup {key}, connectedCount)

totalCorridors(g) == Cardinality({k \in DOMAIN g.cells : g.cells[k] = CELL_CORRIDOR})

validateCorridorNetwork(g, config) ==
  LET start == startCell(g, config)
  IN  IF get(g, start.x, start.y) # CELL_CORRIDOR THEN FALSE
      ELSE FloodFill(g, <<start>>, {}, 0) = totalCorridors(g)

\* sortRoomsByConnectivity: a stable sort, most connected first
degree(adjacencies, id) ==
  Len(SelectSeq(adjacencies, LAMBDA adj : adj.a = id))
    + Len(SelectSeq(adjacencies, LAMBDA adj : adj.b = id))

RECURSIVE SortedInsert(_, _, _)
SortedInsert(sorted, room, adjacencies) ==
  IF sorted = <<>> THEN <<room>>
  ELSE IF degree(adjacencies, Head(sorted).id) >= degree(adjacencies, room.id)
         THEN <<Head(sorted)>> \o SortedInsert(Tail(sorted), room, adjacencies)
         ELSE <<room>> \o sorted

RECURSIVE SortFrom(_, _, _, _)
SortFrom(rooms, k, sorted, adjacencies) ==
  IF k > Len(rooms) THEN sorted
  ELSE SortFrom(rooms, k + 1, SortedInsert(sorted, rooms[k], adjacencies), adjacencies)

sortRoomsByConnectivity(s) == SortFrom(s.rooms, 1, <<>>, s.adjacencies)

(***************************************************************************)
(* DiscreteSolver: construction and solve().                               *)
(***************************************************************************)
DEFAULT_GRID_RESOLUTION == 1
DEFAULT_MAX_ITERATIONS == 500
DEFAULT_MUTATION_RATE == 3

calculateGridDimensions(boundary, gridResolution) ==
  LET xs == [i \in 1 .. Len(boundary) |-> boundary[i].x]
      ys == [i \in 1 .. Len(boundary) |-> boundary[i].y]
  IN  [width |-> CeilDiv(SeqMax(xs, 1) - SeqMin(xs, 1), gridResolution),
       height |-> CeilDiv(SeqMax(ys, 1) - SeqMin(ys, 1), gridResolution)]

\* The constructor's merge with defaults: it copies gridResolution,
\* maxIterations, mutationRate and weights, and no other key of the argument
mergeConfig(config) ==
  [gridResolution |-> Opt(config.gridResolution, DEFAULT_GRID_RESOLUTION),
   maxIterations |-> Opt(config.maxIterations, DEFAULT_MAX_ITERATIONS),
   mutationRate |-> Opt(config.mutationRate, DEFAULT_MUTATION_RATE),
   weights |-> [compactness |-> 2, adjacency |-> 3],
   startPoint |-> <<>>]

\* The constructor's body, with the number its generator is seeded with
Build(boundary, rooms, adjacencies, config, seed, seeding) ==
  LET merged == mergeConfig(config)
      dims == calculateGridDimensions(boundary, merged.gridResolution)
      raster == rasterizePolygon(NewGrid(dims.width, dims.height), boundary)
      grid == IF merged.startPoint # <<>>
                THEN set(raster, merged.startPoint[1].x, merged.startPoint[1].y,
                         CELL_CORRIDOR)
                ELSE set(raster, dims.width \div 2, dims.height \div 2, CELL_CORRIDOR)
  IN  [grid |-> grid, rooms |-> rooms, adjacencies |-> adjacencies, config |-> merged,
       rng |-> seeding % RngMod, placedRooms |-> <<>>,
       bestGrid |-> <<>>, bestScore |-> <<>>,
       pc |-> "constructed", sortedRooms |-> <<>>, idx |-> 0, iter |-> 0,
       snapshot |-> <<>>, snapshotRooms |-> <<>>, toRemove |-> <<>>,
       unplacedRooms |-> <<>>, result |-> <<>>, validated |-> <<>>,
       given |-> [boundary |-> boundary, config |-> config, seed |-> seed]]

\* A constructor that seeds its generator from the clock even when a seed is given
ConstructClockSeeded(boundary, rooms, adjacencies, config, seed, now) ==
  Build(boundary, rooms, adjacencies, config, seed, now)

\* new DiscreteSolver(boundary, rooms, adjacencies, config, seed); seed is
\* optional and defaults to Date.now(), here the argument now
Construct(boundary, rooms, adjacencies, config, seed, now) ==
  Build(boundary, rooms, adjacencies, config, seed, Opt(seed, now))

\* findBestPlacement followed by placeRoom when a candidate was found
placeIfFound(s, room) ==
  LET best == findBestPlacement(s, room)
      drawn == [s EXCEPT !.rng = best.rng]
  IN  IF best.candidate.found
        THEN placeRoom(drawn, room, best.candidate.x, best.candidate.y,
                       best.candidate.width, best.candidate.height)
        ELSE drawn

\* solve(), line 584
solveStart(s) ==
  [s EXCEPT !.sortedRooms = sortRoomsByConnectivity(s), !.idx = 1, !.pc = "greedy"]

\* solve(), lines 585-590: one turn of the greedy loop
greedyPlace(s) == [placeIfFound(s, s.sortedRooms[s.idx]) EXCEPT !.idx = s.idx + 1]

\* solve(), lines 592-593
greedyDone(s) ==
  [s EXCEPT !.bestGrid = <<clone(s.grid)>>, !.bestScore = <<calculateGlobalScore(s)>>,
            !.iter = 0, !.pc = "loop"]

\* solve(), lines 597-604: snapshot and the choice of the rooms to remove
roundStart(s) ==
  LET placedRoomIds == [i \in 1 .. Len(s.placedRooms) |-> s.placedRooms[i].id]
      numToRemove == CeilDiv(Len(placedRoomIds) * s.config.mutationRate, 10)
      shuffled == shuffle(placedRoomIds, s.rng)
  IN  [s EXCEPT !.snapshot = <<clone(s.grid)>>, !.snapshotRooms = s.placedRooms,
                !.toRemove = SubSeq(shuffled.arr, 1, Min(numToRemove, Len(placedRoomIds))),
                !.rng = shuffled.rng, !.pc = "remove"]

\* solve(), lines 606-608: one turn of the removal loop
removeOne(s) == [removeRoom(s, Head(s.toRemove)) EXCEPT !.toRemove = Tail(s.toRemove)]

\* solve(), line 611
removeDone(s) ==
  [s EXCEPT !.unplacedRooms = SelectSeq(s.rooms, LAMBDA room : ~Has(s.placedRooms, room.id)),
            !.idx = 1, !.pc = "replace"]

\* solve(), lines 612-617: one turn of the re-placement loop
replaceOne(s) == [placeIfFound(s, s.unplacedRooms[s.idx]) EXCEPT !.idx = s.idx + 1]

\* evaluate that also accepts a round whose score equals the best one
evaluateTies(s) ==
  LET newScore == calculateGlobalScore(s)
  IN  IF newScore >= s.bestScore[1]
        THEN [s EXCEPT !.bestScore = <<newScore>>, !.bestGrid = <<clone(s.grid)>>,
                       !.iter = s.iter + 1, !.pc = "loop"]
        ELSE [s EXCEPT !.grid = s.snapshot[1], !.placedRooms = s.snapshotRooms,
                       !.iter = s.iter + 1, !.pc = "loop"]

\* solve(), lines 620-630: accept the round or revert to the snapshot
evaluate(s) ==
  LET newScore == calculateGlobalScore(s)
  IN  IF newScore > s.bestScore[1]
        THEN [s EXCEPT !.bestScore = <<newScore>>, !.bestGrid = <<clone(s.grid)>>,
                       !.iter = s.iter + 1, !.pc = "loop"]
        ELSE [s EXCEPT !.grid = s.snapshot[1], !.placedRooms = s.snapshotRooms,
                       !.iter = s.iter + 1, !.pc = "loop"]

\* solve(), lines 634-644: prune both grids and return the best one
pruneAndReturn(s) ==
  LET pruned == pruneDeadEnds(s.grid)
      best == pruneDeadEnds(s.bestGrid[1])
  IN  [s EXCEPT !.grid = pruned, !.bestGrid = <<best>>, !.result = <<best>>,
                !.pc = "done"]

\* The public validateCorridorNetwork(), called on a solved instance
validate(s) ==
  [s EXCEPT !.validated = <<validateCorridorNetwork(s.grid, s.config)>>, !.pc = "validated"]

\* Which step of solve() is next, and the step itself
stepName(s) ==
  CASE s.pc = "constructed" -> "solveStart"
    [] s.pc = "greedy" /\ s.idx <= Len(s.sortedRooms) -> "greedyPlace"
    [] s.pc = "greedy" /\ s.idx > Len(s.sortedRooms) -> "greedyDone"
    [] s.pc = "loop" /\ s.iter < s.config.maxIterations -> "roundStart"
    [] s.pc = "loop" /\ s.iter >= s.config.maxIterations -> "pruneAndReturn"
    [] s.pc = "remove" /\ s.toRemove # <<>> -> "removeOne"
    [] s.pc = "remove" /\ s.toRemove = <<>> -> "removeDone"
    [] s.pc = "replace" /\ s.idx <= Len(s.unplacedRooms) -> "replaceOne"
    [] s.pc = "replace" /\ s.idx > Len(s.unplacedRooms) -> "evaluate"
    [] s.pc = "done" -> "validate"
    [] OTHER -> "none"

step(s) ==
  CASE stepName(s) = "solveStart" -> solveStart(s)
    [] stepName(s) = "greedyPlace" -> greedyPlace(s)
    [] stepName(s) = "greedyDone" -> greedyDone(s)
    [] stepName(s) = "roundStart" -> roundStart(s)
    [] stepName(s) = "pruneAndReturn" -> pruneAndReturn(s)
    [] stepName(s) = "removeOne" -> removeOne(s)
    [] stepName(s) = "removeDone" -> removeDone(s)
    [] stepName(s) = "replaceOne" -> replaceOne(s)
    [] stepName(s) = "evaluate" -> evaluate(s)
    [] stepName(s) = "validate" -> validate(s)
    [] OTHER -> s

(***************************************************************************)
(* The inputs of a run.                                                    *)
(***************************************************************************)
MaxRooms == 2
MaxIterations == 2

Square4 == <<Pt(0, 0), Pt(4, 0), Pt(4, 4), Pt(0, 4)>>
LShape4 == <<Pt(0, 0), Pt(4, 0), Pt(4, 2), Pt(2, 2), Pt(2, 4), Pt(0, 4)>>
Square2 == <<Pt(0, 0), Pt(2, 0), Pt(2, 2), Pt(0, 2)>>

Boundaries == {Square4, LShape4, Square2}

RoomIds == <<"a", "b", "c", "d">>

Room(id, targetArea, minRatio, maxRatio, corridorRule) ==
  [id |-> id, targetArea |-> targetArea, minRatio |-> minRatio, maxRatio |-> maxRatio,
   corridorRule |-> corridorRule]

\* targetArea, minRatio and maxRatio (in tenths) of the first room of a list,
\* which takes every corridor rule
FirstShapes == {<<1, 10, 10>>, <<3, 5, 20>>, <<4, 10, 10>>, <<9, 10, 10>>}

\* targetArea, minRatio, maxRatio and corridor rule of the later rooms
LaterKinds == {<<1, 10, 10, 1>>, <<1, 10, 10, 3>>, <<2, 5, 20, 2>>, <<3, 5, 20, 0>>}

RoomsAt(i) ==
  IF i = 1
    THEN {Room(RoomIds[1], sh[1], sh[2], sh[3], rule) : sh \in FirstShapes, rule \in 0 .. 3}
    ELSE {Room(RoomIds[i], k[1], k[2], k[3], k[4]) : k \in LaterKinds}

\* Lists in which two requests carry the same id
DuplicateIdLists ==
  {<<Room("a", 1, 10, 10, rule), Room("a", 2, 5, 20, 0)>> : rule \in {0, 1}}

RoomLists ==
  UNION {{rooms \in [1 .. n -> UNION {RoomsAt(i) : i \in 1 .. n}] :
            \A i \in 1 .. n : rooms[i] \in RoomsAt(i)} : n \in 1 .. MaxRooms}
    \cup DuplicateIdLists

AdjacencyLists == {<<>>, <<[a |-> "a", b |-> "b", weight |-> 1]>>}

Configs ==
  {[gridResolution |-> <<1>>, maxIterations |-> <<MaxIterations>>, mutationRate |-> <<5>>,
    startPoint |-> <<>>],
   [gridResolution |-> <<1>>, maxIterations |-> <<MaxIterations>>, mutationRate |-> <<10>>,
    startPoint |-> <<Pt(1, 1)>>]}

Seeds == {<<0>>, <<3>>}

Idle == [pc |-> "idle"]

Init ==
  /\ \E boundary \in Boundaries, rooms \in RoomLists, adjacencies \in AdjacencyLists,
        config \in Configs, seed \in Seeds :
       solver = Construct(boundary, rooms, adjacencies, config, seed, 0)
  /\ twin = Idle
  /\ probe = Idle
  /\ collection = Idle /\ peer = Idle /\ mathRandom = 0

SolveStart ==
  /\ stepName(solver) = "solveStart"
  /\ solver' = solveStart(solver)
  /\ UNCHANGED <<twin, probe, genePart>>

GreedyPlace ==
  /\ stepName(solver) = "greedyPlace"
  /\ solver' = greedyPlace(solver)
  /\ UNCHANGED <<twin, probe, genePart>>

GreedyDone ==
  /\ stepName(solver) = "greedyDone"
  /\ solver' = greedyDone(solver)
  /\ UNCHANGED <<twin, probe, genePart>>

RoundStart ==
  /\ stepName(solver) = "roundStart"
  /\ solver' = roundStart(solver)
  /\ UNCHANGED <<twin, probe, genePart>>

RemoveOne ==
  /\ stepName(solver) = "removeOne"
  /\ solver' = removeOne(solver)
  /\ UNCHANGED <<twin, probe, genePart>>

RemoveDone ==
  /\ stepName(solver) = "removeDone"
  /\ solver' = removeDone(solver)
  /\ UNCHANGED <<twin, probe, genePart>>

ReplaceOne ==
  /\ stepName(solver) = "replaceOne"
  /\ solver' = replaceOne(solver)
  /\ UNCHANGED <<twin, probe, genePart>>

Evaluate ==
  /\ stepName(solver) = "evaluate"
  /\ solver' = evaluate(solver)
  /\ UNCHANGED <<twin, probe, genePart>>

PruneAndReturn ==
  /\ stepName(solver) = "pruneAndReturn"
  /\ solver' = pruneAndReturn(solver)
  /\ UNCHANGED <<twin, probe, genePart>>

Validate ==
  /\ stepName(solver) = "validate"
  /\ solver' = validate(solver)
  /\ UNCHANGED <<twin, probe, genePart>>

Next ==
  \/ SolveStart
  \/ GreedyPlace
  \/ GreedyDone
  \/ RoundStart
  \/ RemoveOne
  \/ RemoveDone
  \/ ReplaceOne
  \/ Evaluate
  \/ PruneAndReturn
  \/ Validate

Spec == Init /\ [][Next]_vars

(***************************************************************************)
(* Math.random(): the generator of the runtime, seeded by the runtime and  *)
(* shared by every caller.  A draw steps its state; the number drawn is    *)
(* state / RandomMod, in [0, 1).                                           *)
(***************************************************************************)
RandomMod == 8

\* The state after one draw
MathRandom(r) == (r * 5 + 3) % RandomMod

\* Math.random() < p for the draw r and p in hundredths
Below(r, p) == r * 100 < p * RandomMod

\* Math.floor(Math.random() * n)
FloorTimes(r, n) == (r * n) \div RandomMod

\* (Math.random() - 0.5) * s
Centred(r, s) == ((2 * r - RandomMod) * s) \div (2 * RandomMod)

(***************************************************************************)
(* Arithmetic on hundredths.                                               *)
(***************************************************************************)
Mul(a, b) == (a * b) \div 100

\* a / b for b # 0
Div(a, b) == IF b > 0 THEN (a * 100) \div b ELSE 0 - ((a * 100) \div (0 - b))

Sqrt(a) == FloorSqrt(a * 100)

Abs(a) == IF a < 0 THEN 0 - a ELSE a

\* The array of the elements xs[1], ..., xs[Len(xs)], each computed once
Array(xs) == SubSeq(xs, 1, Len(xs))

(***************************************************************************)
(* Polygon (geometry/Polygon.js), for the rectangles of the rooms and a    *)
(* boundary polygon.                                                       *)
(***************************************************************************)
createRectangle(x, y, w, h) == <<Pt(x, y), Pt(x + w, y), Pt(x + w, y + h), Pt(x, y + h)>>

calculateAABB(poly) ==
  LET xs == [i \in 1 .. Len(poly) |-> poly[i].x]
      ys == [i \in 1 .. Len(poly) |-> poly[i].y]
  IN  [minX |-> SeqMin(xs, 1), maxX |-> SeqMax(xs, 1),
       minY |-> SeqMin(ys, 1), maxY |-> SeqMax(ys, 1)]

aabbIntersects(a, b) ==
  ~(a.maxX < b.minX \/ a.minX > b.maxX \/ a.maxY < b.minY \/ a.minY > b.maxY)

\* The horizontal and vertical extent two bounding boxes share
OverlapX(a, b) == Min(a.maxX, b.maxX) - Max(a.minX, b.minX)

OverlapY(a, b) == Min(a.maxY, b.maxY) - Max(a.minY, b.minY)

\* intersectionArea of two rectangles: overlap width times overlap height
intersectionArea(polyA, polyB) ==
  LET a == calculateAABB(polyA)
      b == calculateAABB(polyB)
  IN  IF OverlapX(a, b) > 0 /\ OverlapY(a, b) > 0
        THEN Mul(OverlapX(a, b), OverlapY(a, b))
        ELSE 0

\* pointInPolygon: ray casting to +x with the half-open edge rule
pointInPolygon(p, poly) ==
  LET n == Len(poly)
      crosses(i) ==
        LET pi == poly[i]
            pj == poly[IF i = 1 THEN n ELSE i - 1]
        IN  /\ (pi.y > p.y) # (pj.y > p.y)
            /\ IF pj.y - pi.y > 0
                 THEN (p.x - pi.x) * (pj.y - pi.y) < (pj.x - pi.x) * (p.y - pi.y)
                 ELSE (p.x - pi.x) * (pj.y - pi.y) > (pj.x - pi.x) * (p.y - pi.y)
  IN  Cardinality({i \in 1 .. n : crosses(i)}) % 2 = 1

DistSq(p, q) == (p.x - q.x) * (p.x - q.x) + (p.y - q.y) * (p.y - q.y)

\* The point of the segment from a to b closest to p: the projection of p,
\* clamped to the segment
ClosestOnSegment(p, a, b) ==
  LET len2 == DistSq(a, b)
      dot == (p.x - a.x) * (b.x - a.x) + (p.y - a.y) * (b.y - a.y)
  IN  IF len2 = 0 \/ dot <= 0 THEN a
      ELSE IF dot >= len2 THEN b
      ELSE Pt(a.x + ((b.x - a.x) * dot) \div len2, a.y + ((b.y - a.y) * dot) \div len2)

\* closestPointOnPolygon from edge i on; best is the closest point so far
RECURSIVE ClosestFrom(_, _, _, _)
ClosestFrom(p, poly, i, best) ==
  IF i > Len(poly) THEN best
  ELSE
    LET q == ClosestOnSegment(p, poly[i], poly[(i % Len(poly)) + 1])
    IN  IF DistSq(p, q) < DistSq(p, best)
          THEN ClosestFrom(p, poly, i + 1, q)
          ELSE ClosestFrom(p, poly, i + 1, best)

closestPointOnPolygon(p, poly) ==
  ClosestFrom(p, poly, 2, ClosestOnSegment(p, poly[1], poly[2]))

(***************************************************************************)
(* Gene (Gene.ts): one candidate layout.  fitness is <<>> while it is      *)
(* Infinity (never computed) and <<f>> afterwards.                         *)
(***************************************************************************)
\* new Gene(rooms); r.field ?? 0 for a pressure field a room object may lack
NewGene(rooms) ==
  LET Field(r, name) == IF name \in DOMAIN r THEN r[name] ELSE 0
  IN  [rooms |-> Array([i \in 1 .. Len(rooms) |->
                   [id |-> rooms[i].id, x |-> rooms[i].x, y |-> rooms[i].y,
                    width |-> rooms[i].width, height |-> rooms[i].height,
                    targetRatio |-> rooms[i].targetRatio,
                    targetArea |-> rooms[i].targetArea,
                    pressureX |-> Field(rooms[i], "pressureX"),
                    pressureY |-> Field(rooms[i], "pressureY"),
                    accumulatedPressureX |-> Field(rooms[i], "accumulatedPressureX"),
                    accumulatedPressureY |-> Field(rooms[i], "accumulatedPressureY")]]),
       fitness |-> <<>>, fitnessG |-> 0, fitnessT |-> 0]

cloneGene(gene) ==
  [NewGene(gene.rooms) EXCEPT !.fitness = gene.fitness, !.fitnessG = gene.fitnessG,
                              !.fitnessT = gene.fitnessT]

\* this.rooms.find(r => r.id === id): the index of the first such room, or 0
FindRoom(rooms, id) ==
  LET at == {i \in 1 .. Len(rooms) : rooms[i].id = id}
  IN  IF at = {} THEN 0 ELSE CHOOSE i \in at : \A j \in at : i <= j

\* id.startsWith('corridor-'), for the ids in use
isCorridor(id) == id \in {"corridor-1"}

\* (globalTargetRatio && !isCorridor) ? globalTargetRatio : room.targetRatio
targetRatioOf(room, globalTargetRatio) ==
  IF globalTargetRatio # <<>> /\ globalTargetRatio[1] # 0 /\ ~isCorridor(room.id)
    THEN globalTargetRatio[1]
    ELSE room.targetRatio

\* ratio >= 1.0 / targetRatio && ratio <= targetRatio
RatioValid(ratio, targetRatio) ==
  targetRatio > 0 /\ ratio >= 10000 \div targetRatio /\ ratio <= targetRatio

\* Lines 124-143: the pull of one adjacency on the rooms of index a and b
\* (0 for a room that is not there); weight is in hundredths
attract(rooms, a, b, weight) ==
  LET moveX == Mul((rooms[b].x + rooms[b].width \div 2)
                     - (rooms[a].x + rooms[a].width \div 2), weight) \div 10
      moveY == Mul((rooms[b].y + rooms[b].height \div 2)
                     - (rooms[a].y + rooms[a].height \div 2), weight) \div 10
  IN  IF a = 0 \/ b = 0 THEN rooms
      ELSE [rooms EXCEPT ![a].x = @ + moveX, ![a].y = @ + moveY,
                         ![b].x = @ - moveX, ![b].y = @ - moveY]

\* applyAdjacencyForces from adjacency k on; strength is in hundredths
RECURSIVE applyAdjacencyForces(_, _, _, _)
applyAdjacencyForces(rooms, adjacencies, k, strength) ==
  IF k > Len(adjacencies) THEN rooms
  ELSE applyAdjacencyForces(attract(rooms, FindRoom(rooms, adjacencies[k].a),
                                    FindRoom(rooms, adjacencies[k].b),
                                    adjacencies[k].weight * strength),
                            adjacencies, k + 1, strength)

\* -1 when a lies before b on the axis, 1 otherwise
Away(a, b) == IF a < b THEN 0 - 1 ELSE 1

\* Lines 164-175: whether the room keeps an allowed ratio at the width newWidth
validWidth(room, newWidth, globalTargetRatio) ==
  /\ newWidth # 0
  /\ room.targetArea # 0
  /\ RatioValid((newWidth * newWidth) \div room.targetArea,
                targetRatioOf(room, globalTargetRatio))

\* Lines 236-247: whether the room keeps an allowed ratio at the height newHeight
validHeight(room, newHeight, globalTargetRatio) ==
  /\ newHeight # 0
  /\ RatioValid((room.targetArea * 10000) \div (newHeight * newHeight),
                targetRatioOf(room, globalTargetRatio))

\* Lines 162-217 of trySquishHorizontal: squish and translate when both rooms
\* keep an allowed ratio, a full move apart otherwise
resolveX(rooms, i, j, overlap, globalTargetRatio) ==
  LET squishAmount == overlap \div 4 + 10
      away == Away(rooms[i].x, rooms[j].x)
  IN  IF /\ validWidth(rooms[i], rooms[i].width - squishAmount, globalTargetRatio)
         /\ validWidth(rooms[j], rooms[j].width - squishAmount, globalTargetRatio)
        THEN [rooms EXCEPT
                ![i].x = @ + away * (overlap \div 4) + away * (squishAmount \div 2),
                ![i].height = Div(rooms[i].targetArea, rooms[i].width - squishAmount),
                ![i].width = @ - squishAmount,
                ![j].x = @ - away * (overlap \div 4) - away * (squishAmount \div 2),
                ![j].height = Div(rooms[j].targetArea, rooms[j].width - squishAmount),
                ![j].width = @ - squishAmount]
        ELSE [rooms EXCEPT ![i].x = @ + away * (overlap \div 2 + 10),
                           ![j].x = @ - away * (overlap \div 2 + 10)]

\* trySquishHorizontal on the rooms of index i and j
trySquishHorizontal(rooms, i, j, overlap, globalTargetRatio, accumulatePressure) ==
  resolveX(IF accumulatePressure
             THEN [rooms EXCEPT ![i].pressureX = @ + overlap, ![j].pressureX = @ + overlap]
             ELSE rooms,
           i, j, overlap, globalTargetRatio)

\* Lines 234-288 of trySquishVertical
resolveY(rooms, i, j, overlap, globalTargetRatio) ==
  LET squishAmount == overlap \div 4 + 10
      away == Away(rooms[i].y, rooms[j].y)
  IN  IF /\ validHeight(rooms[i], rooms[i].height - squishAmount, globalTargetRatio)
         /\ validHeight(rooms[j], rooms[j].height - squishAmount, globalTargetRatio)
        THEN [rooms EXCEPT
                ![i].y = @ + away * (overlap \div 4) + away * (squishAmount \div 2),
                ![i].width = Div(rooms[i].targetArea, rooms[i].height - squishAmount),
                ![i].height = @ - squishAmount,
                ![j].y = @ - away * (overlap \div 4) - away * (squishAmount \div 2),
                ![j].width = Div(rooms[j].targetArea, rooms[j].height - squishAmount),
                ![j].height = @ - squishAmount]
        ELSE [rooms EXCEPT ![i].y = @ + away * (overlap \div 2 + 10),
                           ![j].y = @ - away * (overlap \div 2 + 10)]

\* trySquishVertical on the rooms of index i and j
trySquishVertical(rooms, i, j, overlap, globalTargetRatio, accumulatePressure) ==
  resolveY(IF accumulatePressure
             THEN [rooms EXCEPT ![i].pressureY = @ + overlap, ![j].pressureY = @ + overlap]
             ELSE rooms,
           i, j, overlap, globalTargetRatio)

applyAggressiveInflation(rooms, config) ==
  Array([i \in 1 .. Len(rooms) |->
           IF Mul(rooms[i].width, rooms[i].height)
                < Mul(rooms[i].targetArea, Opt(config.inflationThreshold, 105))
             THEN [rooms[i] EXCEPT !.width = Mul(@, Opt(config.inflationRate, 102)),
                                   !.height = Mul(@, Opt(config.inflationRate, 102))]
             ELSE rooms[i]])

\* The rectangle of a room; its points are the corners in the order
\* constrainToBoundary visits them
rectangleOf(room) == createRectangle(room.x, room.y, room.width, room.height)

\* Lines 319-334: the index of the outside corner farthest from the boundary,
\* the first of them at equal distance; 0 when every corner is inside or on
\* the boundary
farthestOutsideCorner(corners, boundary) ==
  LET distSq == Array([k \in 1 .. Len(corners) |->
                         IF pointInPolygon(corners[k], boundary) THEN 0
                         ELSE DistSq(corners[k],
                                     closestPointOnPolygon(corners[k], boundary))])
  IN  IF \A k \in 1 .. Len(distSq) : distSq[k] <= 0 THEN 0
      ELSE CHOOSE k \in 1 .. Len(distSq) :
             /\ \A m \in 1 .. Len(distSq) : distSq[m] <= distSq[k]
             /\ \A m \in 1 .. k - 1 : distSq[m] < distSq[k]

\* Lines 338-350: the room pushed by 1.1 times the way from its corner of
\* the given index to the closest point of the boundary; without such a
\* corner the room stays as it is to the end of the loop
RECURSIVE ConstrainRoom(_, _, _)
constrainAt(room, corner, closest, boundary, iteration) ==
  ConstrainRoom([room EXCEPT
                   !.x = @ + ((closest.x - corner.x) * 11) \div 10,
                   !.y = @ + ((closest.y - corner.y) * 11) \div 10,
                   !.accumulatedPressureX = @ + Abs(closest.x - corner.x) * 10,
                   !.accumulatedPressureY = @ + Abs(closest.y - corner.y) * 10],
                boundary, iteration + 1)

\* The while loop of constrainToBoundary for one room, from the given iteration
ConstrainRoom(room, boundary, iteration) ==
  LET k == farthestOutsideCorner(rectangleOf(room), boundary)
  IN  IF iteration >= 10 THEN room
      ELSE IF k = 0 THEN room
      ELSE constrainAt(room, rectangleOf(room)[k],
                       closestPointOnPolygon(rectangleOf(room)[k], boundary),
                       boundary, iteration)

constrainToBoundary(rooms, boundary) ==
  Array([i \in 1 .. Len(rooms) |-> ConstrainRoom(rooms[i], boundary, 0)])

\* Lines 83-101: the collision of the rooms i and j of bounding boxes a and b,
\* resolved along the smaller extent of the overlap
resolvePair(rooms, i, j, a, b, globalTargetRatio) ==
  IF ~aabbIntersects(a, b)
       \/ intersectionArea(rectangleOf(rooms[i]), rectangleOf(rooms[j])) <= 1
    THEN rooms
  ELSE IF OverlapX(a, b) < OverlapY(a, b)
    THEN trySquishHorizontal(rooms, i, j, OverlapX(a, b), globalTargetRatio, TRUE)
  ELSE trySquishVertical(rooms, i, j, OverlapY(a, b), globalTargetRatio, TRUE)

\* The pair loop of applySquishCollisions, from the pair (i, j) on
RECURSIVE SquishPairs(_, _, _, _)
SquishPairs(rooms, i, j, globalTargetRatio) ==
  IF i > Len(rooms) THEN rooms
  ELSE IF j > Len(rooms) THEN SquishPairs(rooms, i + 1, i + 2, globalTargetRatio)
  ELSE SquishPairs(resolvePair(rooms, i, j, calculateAABB(rectangleOf(rooms[i])),
                               calculateAABB(rectangleOf(rooms[j])), globalTargetRatio),
                   i, j + 1, globalTargetRatio)

\* Lines 49-57: the pressure accumulators reset, then the inflation if it is
\* configured
resetAndInflate(rooms, config) ==
  IF config.useAggressiveInflation
    THEN applyAggressiveInflation(
           Array([i \in 1 .. Len(rooms) |->
                    [rooms[i] EXCEPT !.pressureX = 0, !.pressureY = 0]]), config)
    ELSE Array([i \in 1 .. Len(rooms) |->
                  [rooms[i] EXCEPT !.pressureX = 0, !.pressureY = 0]])

\* Lines 107-110: the pressure of this pass saved
savePressure(rooms) ==
  Array([i \in 1 .. Len(rooms) |->
           [rooms[i] EXCEPT !.accumulatedPressureX = rooms[i].pressureX,
                            !.accumulatedPressureY = rooms[i].pressureY]])

applySquishCollisions(gene, boundary, config, globalTargetRatio, adjacencies) ==
  [gene EXCEPT !.rooms =
     constrainToBoundary(
       savePressure(SquishPairs(applyAdjacencyForces(resetAndInflate(gene.rooms, config),
                                                     adjacencies, 1, 15),
                                1, 2, globalTargetRatio)),
       boundary)]

\* applySquishCollisions, n times over
RECURSIVE WarmUp(_, _, _, _, _, _)
WarmUp(gene, n, boundary, config, globalTargetRatio, adjacencies) ==
  IF n <= 0 THEN gene
  ELSE WarmUp(applySquishCollisions(gene, boundary, config, globalTargetRatio, adjacencies),
              n - 1, boundary, config, globalTargetRatio, adjacencies)

\* Math.pow(a, exponent) for the exponents 1, 1.5 and 2
Pow(a, exponent) ==
  IF exponent = 100 THEN a
  ELSE IF exponent = 150 THEN Mul(a, Sqrt(a))
  ELSE Mul(a, a)

\* Lines 372-388: the overlap penalty of two rooms of rectangles polyA and polyB
OverlapPenalty(polyA, polyB, config) ==
  LET overlapArea == intersectionArea(polyA, polyB)
      aabbOverlapArea == Mul(OverlapX(calculateAABB(polyA), calculateAABB(polyB)),
                             OverlapY(calculateAABB(polyA), calculateAABB(polyB)))
  IN  IF overlapArea <= 1 THEN 0
      ELSE IF config.useNonLinearOverlapPenalty
        THEN Mul(Pow(overlapArea, Opt(config.overlapPenaltyExponent, 150)),
                 100 + (IF aabbOverlapArea > 10 THEN Div(overlapArea, aabbOverlapArea)
                        ELSE 100))
      ELSE overlapArea

\* Lines 366-391: the overlap penalties of the pairs from (i, j) on
RECURSIVE totalOverlap(_, _, _, _)
totalOverlap(rooms, i, j, config) ==
  IF i > Len(rooms) THEN 0
  ELSE IF j > Len(rooms) THEN totalOverlap(rooms, i + 1, i + 2, config)
  ELSE OverlapPenalty(rectangleOf(rooms[i]), rectangleOf(rooms[j]), config)
         + totalOverlap(rooms, i, j + 1, config)

calculateGeometricFitness(gene, boundary, config) ==
  totalOverlap(gene.rooms, 1, 2, config)
    + 100 * SeqSum([i \in 1 .. Len(gene.rooms) |->
                      Max(0, Mul(gene.rooms[i].width, gene.rooms[i].height)
                               - intersectionArea(boundary, rectangleOf(gene.rooms[i])))], 1)

\* Lines 408-421: the penalty of one adjacency between the rooms of index a
\* and b (0 for a room that is not there)
GapPenalty(rooms, a, b, weight, config) ==
  LET gapX == Max(0, Abs((rooms[a].x + rooms[a].width \div 2)
                           - (rooms[b].x + rooms[b].width \div 2))
                       - (rooms[a].width + rooms[b].width) \div 2)
      gapY == Max(0, Abs((rooms[a].y + rooms[a].height \div 2)
                           - (rooms[b].y + rooms[b].height \div 2))
                       - (rooms[a].height + rooms[b].height) \div 2)
  IN  IF a = 0 \/ b = 0 THEN 0
      ELSE IF config.useQuadraticPenalty THEN (Mul(gapX, gapX) + Mul(gapY, gapY)) * weight
      ELSE Sqrt(Mul(gapX, gapX) + Mul(gapY, gapY)) * weight

calculateTopologicalFitness(gene, adjacencies, config) ==
  SeqSum([k \in 1 .. Len(adjacencies) |->
            GapPenalty(gene.rooms, FindRoom(gene.rooms, adjacencies[k].a),
                       FindRoom(gene.rooms, adjacencies[k].b), adjacencies[k].weight,
                       config)], 1)

calculateFitness(gene, boundary, adjacencies, balance, config) ==
  LET g == calculateGeometricFitness(gene, boundary, config)
      t == calculateTopologicalFitness(gene, adjacencies, config)
  IN  [gene EXCEPT !.fitnessG = g, !.fitnessT = t,
                   !.fitness = <<Mul(g, balance) + Mul(t, 100 - balance)>>]

\* Array.prototype.sort by ascending key, a key of <<>> being Infinity; equal
\* keys keep their order
StableSort(xs, keys) ==
  LET n == Len(xs)
      Less(a, b) == a # <<>> /\ (b = <<>> \/ a[1] < b[1])
      pos == Array([i \in 1 .. n |->
                      Cardinality({j \in 1 .. n : \/ Less(keys[j], keys[i])
                                                  \/ ~Less(keys[i], keys[j]) /\ j < i}) + 1])
  IN  Array([p \in 1 .. n |-> xs[CHOOSE i \in 1 .. n : pos[i] = p]])

\* genes.sort((a, b) => a.fitness - b.fitness)
sortGenes(genes) == StableSort(genes, Array([i \in 1 .. Len(genes) |-> genes[i].fitness]))

calculateDistance(roomA, roomB) ==
  LET dx == (roomB.x + roomB.width \div 2) - (roomA.x + roomA.width \div 2)
      dy == (roomB.y + roomB.height \div 2) - (roomA.y + roomA.height \div 2)
  IN  Sqrt(Mul(dx, dx) + Mul(dy, dy))

calculateDistanceSwapped(roomA, roomB) ==
  LET dx == (roomA.x + roomB.width \div 2) - (roomB.x + roomA.width \div 2)
      dy == (roomA.y + roomB.height \div 2) - (roomB.y + roomA.height \div 2)
  IN  Sqrt(Mul(dx, dx) + Mul(dy, dy))

\* The candidates findBestSwapCandidates pushes from adjacency k on
RECURSIVE SwapCandidatesFrom(_, _, _)
SwapCandidatesFrom(rooms, adjacencies, k) ==
  IF k > Len(adjacencies) THEN <<>>
  ELSE
    LET adj == adjacencies[k]
        a == FindRoom(rooms, adj.a)
        b == FindRoom(rooms, adj.b)
        improvement == calculateDistance(rooms[a], rooms[b])
                         - calculateDistanceSwapped(rooms[a], rooms[b])
    IN  (IF a # 0 /\ b # 0 /\ improvement > 0
           THEN <<[roomAId |-> adj.a, roomBId |-> adj.b,
                   improvementScore |-> improvement * adj.weight]>>
           ELSE <<>>) \o SwapCandidatesFrom(rooms, adjacencies, k + 1)

\* The candidates sorted by falling improvementScore
findBestSwapCandidates(rooms, adjacencies) ==
  LET candidates == SwapCandidatesFrom(rooms, adjacencies, 1)
  IN  StableSort(candidates,
                 Array([i \in 1 .. Len(candidates) |->
                          <<0 - candidates[i].improvementScore>>]))

\* The rooms with the positions of the rooms of index a and b exchanged
\* swap that exchanges the two rooms whole
SwapRooms(rooms, a, b) == [rooms EXCEPT ![a] = rooms[b], ![b] = rooms[a]]

SwapPositions(rooms, a, b) ==
  [rooms EXCEPT ![a].x = rooms[b].x, ![a].y = rooms[b].y,
                ![b].x = rooms[a].x, ![b].y = rooms[a].y]

\* Lines 438-457: the swap among the candidates, or of two rooms drawn at
\* random when there is none; rnd is the state of Math.random
swapAmong(rooms, candidates, rnd) ==
  LET r1 == MathRandom(rnd)
      r2 == MathRandom(r1)
      candidate == candidates[FloorTimes(r1, Min(3, Len(candidates))) + 1]
      roomAIndex == FloorTimes(r1, Len(rooms)) + 1
      roomBIndex == FloorTimes(r2, Len(rooms)) + 1
  IN  IF Len(candidates) > 0
        THEN [rooms |-> SwapPositions(rooms, FindRoom(rooms, candidate.roomAId),
                                      FindRoom(rooms, candidate.roomBId)),
              rnd |-> r1]
        ELSE [rooms |-> IF roomAIndex # roomBIndex
                          THEN SwapPositions(rooms, roomAIndex, roomBIndex)
                          ELSE rooms,
              rnd |-> r2]

\* The swap mutation that opens mutate
swapMutation(rooms, rnd, config, adjacencies) ==
  IF ~config.useSwapMutation THEN [rooms |-> rooms, rnd |-> rnd]
  ELSE IF ~Below(MathRandom(rnd), Opt(config.swapMutationRate, 10))
    THEN [rooms |-> rooms, rnd |-> MathRandom(rnd)]
  ELSE swapAmong(rooms, findBestSwapCandidates(rooms, adjacencies), MathRandom(rnd))

\* The ids findConnectedNeighbor collects from adjacency k on
RECURSIVE NeighborIds(_, _, _)
NeighborIds(id, adjacencies, k) ==
  IF k > Len(adjacencies) THEN <<>>
  ELSE (IF adjacencies[k].a = id THEN <<adjacencies[k].b>>
        ELSE IF adjacencies[k].b = id THEN <<adjacencies[k].a>>
        ELSE <<>>) \o NeighborIds(id, adjacencies, k + 1)

\* findConnectedNeighbor: the index of the neighbour (0 for null) and the
\* state of Math.random afterwards
findConnectedNeighbor(rooms, i, rnd, adjacencies) ==
  LET neighbors == NeighborIds(rooms[i].id, adjacencies, 1)
  IN  IF Len(neighbors) = 0 THEN [index |-> 0, rnd |-> rnd]
      ELSE [index |-> FindRoom(rooms,
                               neighbors[FloorTimes(MathRandom(rnd), Len(neighbors)) + 1]),
            rnd |-> MathRandom(rnd)]

\* Lines 464-470: room i moved 0.7 of the way to the neighbour found
pullToNeighbor(rooms, i, found) ==
  IF found.index = 0
    THEN [rooms |-> rooms, rnd |-> found.rnd, mutationApplied |-> FALSE]
    ELSE [rooms |-> [rooms EXCEPT
                       ![i].x = @ + Mul(rooms[found.index].x - rooms[i].x, 70),
                       ![i].y = @ + Mul(rooms[found.index].y - rooms[i].y, 70)],
          rnd |-> found.rnd, mutationApplied |-> TRUE]

\* Lines 461-471 of mutate for the room of index i
partnerBias(rooms, i, rnd, config, adjacencies) ==
  IF ~config.usePartnerBias THEN [rooms |-> rooms, rnd |-> rnd, mutationApplied |-> FALSE]
  ELSE IF ~Below(MathRandom(rnd), Opt(config.partnerBiasRate, 40))
    THEN [rooms |-> rooms, rnd |-> MathRandom(rnd), mutationApplied |-> FALSE]
  ELSE pullToNeighbor(rooms, i, findConnectedNeighbor(rooms, i, MathRandom(rnd), adjacencies))

\* Lines 473-476 of mutate for the room of index i; s holds the rooms, the
\* state of Math.random and mutationApplied
randomMove(s, i, mutationRate, mutationStrength) ==
  LET r == MathRandom(s.rnd)
      rX == MathRandom(r)
      rY == MathRandom(rX)
  IN  IF s.mutationApplied THEN [rooms |-> s.rooms, rnd |-> s.rnd]
      ELSE IF ~Below(r, mutationRate) THEN [rooms |-> s.rooms, rnd |-> r]
      ELSE [rooms |-> [s.rooms EXCEPT ![i].x = @ + Centred(rX, mutationStrength),
                                      ![i].y = @ + Centred(rY, mutationStrength)],
            rnd |-> rY]

\* The room with the given width and the height its target area leaves
withWidth(room, width) == [room EXCEPT !.width = width, !.height = Div(room.targetArea, width)]

\* Lines 479-501: the room reshaped by the aspect mutation.  A quotient by
\* zero is +Infinity or -Infinity, which the clamp takes to maxRatio or
\* minRatio
reshaped(room, randomChange, targetRatio) ==
  LET pressureDelta == room.accumulatedPressureX - room.accumulatedPressureY
      totalPressure == room.accumulatedPressureX + room.accumulatedPressureY
      bias == IF totalPressure > 10 /\ pressureDelta > 50 THEN 0 - 30
              ELSE IF totalPressure > 10 /\ pressureDelta < 0 - 50 THEN 30
              ELSE 0
      minRatio == 10000 \div targetRatio
      newRatio == IF room.height # 0
                    THEN Max(minRatio,
                             Min(targetRatio, Mul(Div(room.width, room.height),
                                                  100 + randomChange + bias)))
                    ELSE IF room.width > 0 THEN targetRatio ELSE minRatio
  IN  withWidth(room, Sqrt(Mul(room.targetArea, newRatio)))

\* Lines 478-505 of mutate for the room of index i; s holds the rooms and the
\* state of Math.random
aspectMutation(s, i, aspectMutationRate, globalTargetRatio) ==
  LET r == MathRandom(s.rnd)
      rChange == MathRandom(r)
      room == IF Below(r, aspectMutationRate)
                THEN reshaped(s.rooms[i], Centred(rChange, 20),
                              targetRatioOf(s.rooms[i], globalTargetRatio))
                ELSE s.rooms[i]
  IN  [rooms |-> [s.rooms EXCEPT ![i] = [room EXCEPT !.width = Max(100, @),
                                                     !.height = Max(100, @)]],
       rnd |-> IF Below(r, aspectMutationRate) THEN rChange ELSE r]

\* The room loop of mutate, from the room of index i on
RECURSIVE mutateRooms(_, _, _, _, _, _, _, _)
mutateRooms(s, i, mutationRate, mutationStrength, aspectMutationRate, globalTargetRatio, config, adjacencies) ==
  IF i > Len(s.rooms) THEN s
  ELSE mutateRooms(aspectMutation(randomMove(partnerBias(s.rooms, i, s.rnd, config,
                                                         adjacencies),
                                             i, mutationRate, mutationStrength),
                                  i, aspectMutationRate, globalTargetRatio),
                   i + 1, mutationRate, mutationStrength, aspectMutationRate,
                   globalTargetRatio, config, adjacencies)

\* The gene with the rooms of s, and the state of Math.random of s
withRooms(gene, s) == [gene |-> [gene EXCEPT !.rooms = s.rooms], rnd |-> s.rnd]

\* mutate: the mutated gene and the state of Math.random afterwards
mutate(gene, rnd, mutationRate, mutationStrength, aspectRatioMutationRate, globalTargetRatio, config, adjacencies) ==
  withRooms(gene,
            mutateRooms(swapMutation(gene.rooms, rnd, config, adjacencies), 1, mutationRate,
                        mutationStrength, Opt(aspectRatioMutationRate, mutationRate),
                        globalTargetRatio, config, adjacencies))

\* The loop of crossover from the room of index i on; childRooms are the
\* rooms made so far
RECURSIVE crossoverRooms(_, _, _, _, _)
crossoverRooms(roomsA, roomsB, i, rnd, childRooms) ==
  IF i > Len(roomsA) THEN [gene |-> NewGene(childRooms), rnd |-> rnd]
  ELSE
    LET rX == MathRandom(rnd)
        rY == MathRandom(rX)
        rW == MathRandom(rY)
        rH == MathRandom(rW)
        parentA == roomsA[i]
        parentB == roomsB[i]
    IN  crossoverRooms(roomsA, roomsB, i + 1, rH,
          Append(childRooms,
                 [id |-> parentA.id,
                  x |-> IF Below(rX, 50) THEN parentA.x ELSE parentB.x,
                  y |-> IF Below(rY, 50) THEN parentA.y ELSE parentB.y,
                  width |-> IF Below(rW, 50) THEN parentA.width ELSE parentB.width,
                  height |-> IF Below(rH, 50) THEN parentA.height ELSE parentB.height,
                  targetRatio |-> parentA.targetRatio,
                  targetArea |-> parentA.targetArea,
                  pressureX |-> 0,
                  pressureY |-> 0,
                  accumulatedPressureX |->
                    (parentA.accumulatedPressureX + parentB.accumulatedPressureX) \div 2,
                  accumulatedPressureY |->
                    (parentA.accumulatedPressureY + parentB.accumulatedPressureY) \div 2]))

crossover(gene, other, rnd) == crossoverRooms(gene.rooms, other.rooms, 1, rnd, <<>>)

(***************************************************************************)
(* GeneCollection: the population of the evolutionary refinement.  Its     *)
(* operations take the state of Math.random and give back the state after  *)
(* their draws.  threw records that the last call ended in a TypeError,    *)
(* calls counts the calls of iterate().                                    *)
(***************************************************************************)
\* genes.push(gene) for the gene of made, keeping its state of Math.random
pushMade(genes, made) == [genes |-> Append(genes, made.gene), rnd |-> made.rnd]

\* The loop of initializePopulation, from its index i on; s holds the genes
\* and the state of Math.random
RECURSIVE initializeFrom(_, _, _, _, _, _)
initializeFrom(baseGene, i, s, config, globalTargetRatio, adjacencies) ==
  IF i >= config.populationSize THEN s
  ELSE initializeFrom(baseGene, i + 1,
                      pushMade(s.genes,
                               mutate(cloneGene(baseGene), s.rnd, 50,
                                      config.mutationStrength * 2,
                                      config.aspectRatioMutationRate, globalTargetRatio,
                                      config, adjacencies)),
                      config, globalTargetRatio, adjacencies)

initializePopulation(baseRooms, rnd, config, globalTargetRatio, adjacencies) ==
  initializeFrom(NewGene(baseRooms), 1, [genes |-> <<NewGene(baseRooms)>>, rnd |-> rnd],
                 config, globalTargetRatio, adjacencies)

\* new GeneCollection(...): the collection and the state of Math.random
NewGeneCollection(initialRooms, boundary, adjacencies, config, globalTargetRatio, rnd) ==
  LET made == initializePopulation(initialRooms, rnd, config, globalTargetRatio,
                                   adjacencies)
  IN  [collection |-> [boundary |-> boundary, adjacencies |-> adjacencies,
                       config |-> config, globalTargetRatio |-> globalTargetRatio,
                       baseRooms |-> initialRooms, genes |-> made.genes,
                       currentGeneration |-> 0, calls |-> 0, threw |-> FALSE],
       rnd |-> made.rnd]

\* Steps 1 to 3 of iterate: the genes squished, graded and sorted
evaluated(c) ==
  sortGenes(Array([i \in 1 .. Len(c.genes) |->
                     calculateFitness(applySquishCollisions(c.genes[i], c.boundary, c.config,
                                                            c.globalTargetRatio,
                                                            c.adjacencies),
                                      c.boundary, c.adjacencies, c.config.fitnessBalance,
                                      c.config)]))

\* Lines 88-92: the child of the parents of the given indices pushed; a
\* missing parent is a TypeError.  made is what crossover gives for them
bear(genes, offspring, parentAIndex, parentBIndex, rnd, made) ==
  IF parentAIndex > Len(genes)
       \/ (parentBIndex > Len(genes) /\ Len(genes[parentAIndex].rooms) > 0)
    THEN [offspring |-> offspring, rnd |-> rnd, threw |-> TRUE]
  ELSE IF parentBIndex > Len(genes)
    THEN [offspring |-> Append(offspring, NewGene(<<>>)), rnd |-> rnd, threw |-> FALSE]
  ELSE [offspring |-> Append(offspring, made.gene), rnd |-> made.rnd, threw |-> FALSE]

\* Step 4 of iterate: the crossover loop with i offspring still to make; s
\* holds the offspring, the state of Math.random and whether a parent was
\* missing
RECURSIVE makeOffspring(_, _, _, _)
makeOffspring(genes, i, parentPoolSize, s) ==
  IF i <= 0 \/ s.threw THEN s
  ELSE
    LET rA == MathRandom(s.rnd)
        rB == MathRandom(rA)
        parentAIndex == FloorTimes(rA, parentPoolSize) + 1
        parentBIndex == FloorTimes(rB, parentPoolSize) + 1
    IN  makeOffspring(genes, i - 1, parentPoolSize,
                      bear(genes, s.offspring, parentAIndex, parentBIndex, rB,
                           crossover(genes[parentAIndex], genes[parentBIndex], rB)))

\* mutate with the rates of the configuration, then the physics warm-up
mutateAndWarmUp(gene, rnd, c) ==
  LET made == mutate(gene, rnd, c.config.mutationRate, c.config.mutationStrength,
                     c.config.aspectRatioMutationRate, c.globalTargetRatio, c.config,
                     c.adjacencies)
  IN  [gene |-> WarmUp(made.gene, Opt(c.config.warmUpIterations, 0), c.boundary, c.config,
                       c.globalTargetRatio, c.adjacencies),
       rnd |-> made.rnd]

\* Step 5 of iterate, from the offspring of index k on; s holds the genes
\* mutated so far and the state of Math.random
RECURSIVE mutateOffspring(_, _, _, _)
mutateOffspring(offspring, k, s, c) ==
  IF k > Len(offspring) THEN s
  ELSE mutateOffspring(offspring, k + 1,
                       pushMade(s.genes, mutateAndWarmUp(offspring[k], s.rnd, c)), c)

\* The loop that refills the population to populationSize; s holds the genes
\* and the state of Math.random.  A draw from no gene is a TypeError
RECURSIVE refill(_, _)
refill(s, c) ==
  LET r == MathRandom(s.rnd)
  IN  IF Len(s.genes) >= c.config.populationSize
        THEN [genes |-> s.genes, rnd |-> s.rnd, threw |-> FALSE]
      ELSE IF Len(s.genes) = 0 THEN [genes |-> s.genes, rnd |-> r, threw |-> TRUE]
      ELSE refill(pushMade(s.genes,
                           mutateAndWarmUp(cloneGene(s.genes[FloorTimes(r, Len(s.genes)) + 1]),
                                           r, c)),
                  c)

\* The configuration of the incubation phase
incubationConfig(config) ==
  [config EXCEPT !.useSwapMutation = TRUE, !.swapMutationRate = <<50>>,
                 !.usePartnerBias = TRUE, !.partnerBiasRate = <<80>>]

\* Lines 172-179: a gene of the base rooms with the dimensions of their targets
freshGene(baseRooms) ==
  [rooms |-> Array([i \in 1 .. Len(baseRooms) |->
                      LET room == NewGene(baseRooms).rooms[i]
                      IN  withWidth([room EXCEPT !.accumulatedPressureX = 0,
                                                 !.accumulatedPressureY = 0],
                                    Sqrt(Mul(room.targetArea, room.targetRatio)))]),
   fitness |-> <<>>, fitnessG |-> 0, fitnessT |-> 0]

\* The incubation phase with j steps left; s holds the gene and the state of
\* Math.random
RECURSIVE incubate(_, _, _)
incubate(s, j, c) ==
  IF j <= 0 THEN s
  ELSE
    LET made == mutate(s.gene, s.rnd, 90, c.config.mutationStrength * 3, <<100>>,
                       c.globalTargetRatio, incubationConfig(c.config), c.adjacencies)
    IN  incubate([gene |-> applySquishCollisions(made.gene, c.boundary,
                                                 incubationConfig(c.config),
                                                 c.globalTargetRatio, c.adjacencies),
                  rnd |-> made.rnd],
                 j - 1, c)

\* The loop of the fresh blood step, i genes still to make; s holds the genes
\* and the state of Math.random
RECURSIVE freshBlood(_, _, _)
freshBlood(s, i, c) ==
  IF i <= 0 THEN s
  ELSE
    LET grown == incubate([gene |-> freshGene(c.baseRooms), rnd |-> s.rnd],
                          IF Opt(c.config.freshBloodWarmUp, 0) = 0 THEN 100
                          ELSE c.config.freshBloodWarmUp[1],
                          c)
    IN  freshBlood([genes |->
                      Append(s.genes,
                             calculateFitness(
                               applySquishCollisions(grown.gene, c.boundary, c.config,
                                                     c.globalTargetRatio, c.adjacencies),
                               c.boundary, c.adjacencies, c.config.fitnessBalance,
                               c.config)),
                    rnd |-> grown.rnd],
                   i - 1, c)

\* Whether the fresh blood step runs in the given generation
freshBloodDue(config, generation) ==
  /\ config.useFreshBlood
  /\ generation > 0
  /\ Opt(config.freshBloodInterval, 20) # 0
  /\ generation % Opt(config.freshBloodInterval, 20) = 0

\* The collection as iterate leaves it; s holds its genes and the state of
\* Math.random
left(c, s, generation, threw) ==
  [collection |-> [c EXCEPT !.genes = s.genes, !.currentGeneration = generation,
                            !.calls = @ + 1, !.threw = threw],
   rnd |-> s.rnd]

\* Lines 143-203 of iterate; filled is what the refill loop left
afterRefill(c, filled) ==
  LET sorted == sortGenes(filled.genes)
      numToReplace == Max(1, Len(filled.genes) \div 4)
  IN  IF filled.threw THEN left(c, filled, c.currentGeneration, TRUE)
      ELSE IF freshBloodDue(c.config, c.currentGeneration + 1)
        THEN left(c, freshBlood([genes |-> SubSeq(sorted, 1, Len(sorted) - numToReplace),
                                 rnd |-> filled.rnd],
                                numToReplace, c),
                  c.currentGeneration + 1, FALSE)
      ELSE left(c, filled, c.currentGeneration + 1, FALSE)

\* Lines 114-140 of iterate: the offspring pushed, the worst genes culled and
\* the population refilled; mutated holds the mutated offspring
afterMutation(c, sorted, mutated) ==
  LET grown == sorted \o mutated.genes
      numToCull == (Len(grown) * c.config.selectionPressure) \div 100
  IN  afterRefill(c, refill([genes |-> SubSeq(grown, 1, Len(grown) - numToCull),
                             rnd |-> mutated.rnd], c))

\* Lines 95-111 of iterate; born is what the crossover loop left
afterCrossover(c, sorted, born) ==
  IF born.threw
    THEN left(c, [genes |-> sorted, rnd |-> born.rnd], c.currentGeneration, TRUE)
    ELSE afterMutation(c, sorted,
                       mutateOffspring(born.offspring, 1,
                                       [genes |-> <<>>, rnd |-> born.rnd], c))

\* Lines 76-93 of iterate on the sorted genes
afterSort(c, sorted, rnd) ==
  afterCrossover(c, sorted,
                 makeOffspring(sorted,
                               (c.config.populationSize * c.config.crossoverRate) \div 100,
                               Max(2, Len(sorted) \div 2),
                               [offspring |-> <<>>, rnd |-> rnd, threw |-> FALSE]))

\* iterate(): the collection and the state of Math.random after the call
iterate(c, rnd) == afterSort(c, evaluated(c), rnd)

(***************************************************************************)
(* A solver whose grid holds arbitrary contents (getGrid() hands out the   *)
(* live buffer), on which validateCorridorNetwork() or pruneDeadEnds() is  *)
(* then called.                                                            *)
(***************************************************************************)
MaxCorridors == 5

\* Width, height and the cell values drawn for the grids
ProbeShapes ==
  {[width |-> 3, height |-> 3, values |-> {CELL_CORRIDOR, CELL_EMPTY, 1}],
   [width |-> 3, height |-> 2,
    values |-> {CELL_OUT_OF_BOUNDS, CELL_CORRIDOR, CELL_EMPTY, 1}]}

CorridorCount(cells) == Cardinality({k \in DOMAIN cells : cells[k] = CELL_CORRIDOR})

DefaultConfig ==
  mergeConfig([gridResolution |-> <<>>, maxIterations |-> <<>>, mutationRate |-> <<>>,
               startPoint |-> <<>>])

InitGrid ==
  /\ solver = Idle
  /\ twin = Idle
  /\ \E sh \in ProbeShapes :
       \E cells \in [0 .. sh.width * sh.height - 1 -> sh.values] :
         /\ CorridorCount(cells) <= MaxCorridors
         /\ probe = [pc |-> "grid", config |-> DefaultConfig,
                     grid |-> [width |-> sh.width, height |-> sh.height, cells |-> cells]]
  /\ collection = Idle /\ peer = Idle /\ mathRandom = 0

ProbeValidate ==
  /\ probe.pc = "grid"
  /\ probe' = [pc |-> "validated", grid |-> probe.grid, config |-> probe.config,
               validated |-> validateCorridorNetwork(probe.grid, probe.config)]
  /\ UNCHANGED <<solver, twin, genePart>>

ProbePrune ==
  /\ probe.pc = "grid"
  /\ probe' = [pc |-> "pruned", grid |-> pruneDeadEnds(probe.grid),
               config |-> probe.config, before |-> probe.grid]
  /\ UNCHANGED <<solver, twin, genePart>>

NextGrid ==
  \/ ProbeValidate
  \/ ProbePrune

SpecGrid == InitGrid /\ [][NextGrid]_vars

\* Runs of solve() together with the calls on arbitrary grids
InitPrune ==
  \/ Init
  \/ InitGrid

NextPrune ==
  \/ Next
  \/ NextGrid

SpecPrune == InitPrune /\ [][NextPrune]_vars

(***************************************************************************)
(* Two solvers built from the same arguments at different times; solve()   *)
(* is synchronous, so the second one runs once the first has returned.     *)
(***************************************************************************)
\* The seeds of the twin runs: a given seed, or none (the clock then seeds)
TwinSeeds == Seeds \cup {<<>>}

InitTwin ==
  /\ \E boundary \in Boundaries, rooms \in RoomLists, adjacencies \in AdjacencyLists,
        config \in Configs, seed \in TwinSeeds :
       /\ solver = Construct(boundary, rooms, adjacencies, config, seed, 1)
       /\ twin = Construct(boundary, rooms, adjacencies, config, seed, 6)
  /\ probe = Idle
  /\ collection = Idle /\ peer = Idle /\ mathRandom = 0

TwinStep ==
  /\ solver.pc = "done"
  /\ stepName(twin) \notin {"none", "validate"}
  /\ twin' = step(twin)
  /\ UNCHANGED <<solver, probe, genePart>>

NextTwin ==
  \/ SolveStart
  \/ GreedyPlace
  \/ GreedyDone
  \/ RoundStart
  \/ RemoveOne
  \/ RemoveDone
  \/ ReplaceOne
  \/ Evaluate
  \/ PruneAndReturn
  \/ TwinStep

SpecTwin == InitTwin /\ [][NextTwin]_vars

(***************************************************************************)
(* Two gene collections built one after the other from the same arguments  *)
(* in one runtime, whose iterate() calls interleave in any order.          *)
(***************************************************************************)
MaxGenerations == 2

GeneBoundary == <<Pt(0, 0), Pt(400, 0), Pt(400, 400), Pt(0, 400)>>

RoomA == [id |-> "a", x |-> 0, y |-> 0, width |-> 200, height |-> 200,
          targetRatio |-> 150, targetArea |-> 400]

RoomB == [id |-> "b", x |-> 100, y |-> 100, width |-> 200, height |-> 200,
          targetRatio |-> 200, targetArea |-> 400]

RoomCorridor == [id |-> "corridor-1", x |-> 300, y |-> 300, width |-> 200, height |-> 100,
                 targetRatio |-> 300, targetArea |-> 200, pressureX |-> 0, pressureY |-> 0,
                 accumulatedPressureX |-> 100, accumulatedPressureY |-> 0]

GeneRoomLists == {<<RoomA, RoomB>>, <<RoomA, RoomCorridor>>}

GeneAdjacencyLists ==
  {<<>>,
   <<[a |-> "a", b |-> "corridor-1", weight |-> 2], [a |-> "b", b |-> "a", weight |-> 1]>>}

GlobalTargetRatios == {<<>>, <<150>>}

PlainConfig ==
  [populationSize |-> 2, mutationRate |-> 30, mutationStrength |-> 100,
   aspectRatioMutationRate |-> <<>>, crossoverRate |-> 50, selectionPressure |-> 30,
   fitnessBalance |-> 50, warmUpIterations |-> <<>>, useFreshBlood |-> FALSE,
   freshBloodInterval |-> <<>>, freshBloodWarmUp |-> <<>>, useSwapMutation |-> FALSE,
   swapMutationRate |-> <<>>, usePartnerBias |-> FALSE, partnerBiasRate |-> <<>>,
   useAggressiveInflation |-> FALSE, inflationRate |-> <<>>, inflationThreshold |-> <<>>,
   useNonLinearOverlapPenalty |-> FALSE, overlapPenaltyExponent |-> <<>>,
   useQuadraticPenalty |-> FALSE]

GeneConfigs ==
  {PlainConfig,
   [PlainConfig EXCEPT !.populationSize = 3, !.crossoverRate = 100,
                       !.selectionPressure = 50, !.aspectRatioMutationRate = <<60>>,
                       !.warmUpIterations = <<1>>, !.useFreshBlood = TRUE,
                       !.freshBloodInterval = <<1>>, !.freshBloodWarmUp = <<1>>,
                       !.useSwapMutation = TRUE, !.swapMutationRate = <<60>>,
                       !.usePartnerBias = TRUE, !.useAggressiveInflation = TRUE,
                       !.useNonLinearOverlapPenalty = TRUE, !.useQuadraticPenalty = TRUE],
   [PlainConfig EXCEPT !.populationSize = 4, !.selectionPressure = 10,
                       !.useFreshBlood = TRUE, !.freshBloodInterval = <<2>>,
                       !.freshBloodWarmUp = <<2>>, !.fitnessBalance = 70],
   [PlainConfig EXCEPT !.selectionPressure = 100, !.mutationRate = 100]}

InitGene ==
  /\ \E rooms \in GeneRoomLists, adjacencies \in GeneAdjacencyLists, config \in GeneConfigs,
        globalTargetRatio \in GlobalTargetRatios, rnd \in 0 .. RandomMod - 1 :
       LET first == NewGeneCollection(rooms, GeneBoundary, adjacencies, config,
                                      globalTargetRatio, rnd)
           second == NewGeneCollection(rooms, GeneBoundary, adjacencies, config,
                                       globalTargetRatio, first.rnd)
       IN  /\ collection = first.collection
           /\ peer = second.collection
           /\ mathRandom = second.rnd
  /\ solver = Idle /\ twin = Idle /\ probe = Idle

\* getBest(): sorts the genes in place and returns the first.
getBest(c) == sortGenes(c.genes)[1]

GetBest ==
  /\ collection.genes # <<>>
  /\ collection' = [collection EXCEPT !.genes = sortGenes(@)]
  /\ UNCHANGED <<solver, twin, probe, peer, mathRandom>>

IterateCollection ==
  /\ collection.calls < MaxGenerations
  /\ LET done == iterate(collection, mathRandom)
     IN  collection' = done.collection /\ mathRandom' = done.rnd
  /\ UNCHANGED <<solver, twin, probe, peer>>

IteratePeer ==
  /\ peer.calls < MaxGenerations
  /\ LET done == iterate(peer, mathRandom)
     IN  peer' = done.collection /\ mathRandom' = done.rnd
  /\ UNCHANGED <<solver, twin, probe, collection>>

NextGene ==
  \/ IterateCollection
  \/ IteratePeer
  \/ GetBest

SpecGene == InitGene /\ [][NextGene]_vars

(***************************************************************************)
(* Collections of three rooms that never inject fresh blood.               *)
(***************************************************************************)
EliteRoomLists == {<<RoomA, RoomB, RoomCorridor>>}

EliteConfigs == {PlainConfig, [PlainConfig EXCEPT !.fitnessBalance = 0, !.selectionPressure = 50]}

InitElite ==
  /\ \E rooms \in EliteRoomLists, adjacencies \in GeneAdjacencyLists, config \in EliteConfigs,
        globalTargetRatio \in GlobalTargetRatios, rnd \in 0 .. RandomMod - 1 :
       LET first == NewGeneCollection(rooms, GeneBoundary, adjacencies, config,
                                      globalTargetRatio, rnd)
           second == NewGeneCollection(rooms, GeneBoundary, adjacencies, config,
                                       globalTargetRatio, first.rnd)
       IN  /\ collection = first.collection
           /\ peer = second.collection
           /\ mathRandom = second.rnd
  /\ solver = Idle /\ twin = Idle /\ probe = Idle

SpecElite == InitElite /\ [][NextGene]_vars

(***************************************************************************)
(* Solvers constructed from input that is not valid: a boundary of two     *)
(* vertices, a request without area, two requests with one id, an          *)
(* adjacency that names no request.                                        *)
(***************************************************************************)
Segment4 == <<Pt(0, 0), Pt(4, 4)>>

\* Boundary, rooms and adjacencies of the constructions, one kind of defect each
InvalidInputs ==
  {<<Segment4, <<Room("a", 1, 10, 10, rule), Room("b", 2, 5, 20, 2)>>, <<>>>> :
     rule \in 0 .. 3}
    \cup {<<Square4, <<Room("a", area, 10, 10, 1), Room("b", 1, 10, 10, rule)>>, <<>>>> :
            area \in {0, 0 - 1}, rule \in {1, 3}}
    \cup {<<Square4, rooms, <<>>>> : rooms \in DuplicateIdLists}
    \cup {<<Square4, <<Room("a", 1, 10, 10, rule), Room("b", 1, 10, 10, 3)>>,
            <<[a |-> "a", b |-> "z", weight |-> 1]>>>> : rule \in {1, 2}}

InitInvalid ==
  /\ \E input \in InvalidInputs, config \in Configs, seed \in Seeds :
       solver = Construct(input[1], input[2], input[3], config, seed, 0)
  /\ twin = Idle
  /\ probe = Idle
  /\ collection = Idle /\ peer = Idle /\ mathRandom = 0

SpecInvalid == InitInvalid /\ [][Next]_vars

(***************************************************************************)
(* A GridBuffer driven directly through its public methods.  The cells of  *)
(* a buffer are an Int32Array, an object of the heap: heap[a] is the array *)
(* at address a, and a buffer holds width, height and the address of its   *)
(* cells, so that two buffers may or may not share one array.  The probe   *)
(* keeps the buffer constructed first (grid), the buffer clone() returned  *)
(* (copy, once there is one), and the last call with its arguments, its    *)
(* result and the heap before it.                                          *)
(***************************************************************************)
BufferWidth == 3
BufferHeight == 2
MaxCalls == 3

LShape32 == <<Pt(0, 0), Pt(3, 0), Pt(3, 1), Pt(1, 1), Pt(1, 2), Pt(0, 2)>>
Triangle32 == <<Pt(0, 0), Pt(3, 0), Pt(0, 2)>>
Column32 == <<Pt(1, 0), Pt(2, 0), Pt(2, 2), Pt(1, 2)>>
Segment32 == <<Pt(0, 0), Pt(3, 2)>>
Polygons == {LShape32, Triangle32, Column32, Segment32}

\* Coordinates in range and out of range on every side; (-1, 1) and (3, 0)
\* have an index inside the array though they are out of range.
BufferPoints == {<<2, 0>>, <<2, 1>>, <<-1, 1>>, <<3, 0>>, <<1, 2>>, <<1, -1>>}
BufferValues == {CELL_CORRIDOR, 1}

\* The buffer an object stands for: its fields and the array it points to.
Buffer(heap, b) == [width |-> b.width, height |-> b.height, cells |-> heap[b.cells]]

\* clone() that hands back a buffer over the array of the original
cloneBufferShared(heap, b) ==
  [heap |-> heap, copy |-> b]

\* clone(): a new GridBuffer allocates its own array, cells.set copies into it.
cloneBuffer(heap, b) ==
  [heap |-> Append(heap, clone(Buffer(heap, b)).cells),
   copy |-> [width |-> b.width, height |-> b.height, cells |-> Len(heap) + 1]]

NoCall == [op |-> "new", target |-> "grid", x |-> 0, y |-> 0, value |-> 0, polygon |-> <<>>, returned |-> 0, before |-> <<>>]

BufferTargets(p) == IF p.copy = <<>> THEN {"grid"} ELSE {"grid", "copy"}
BufferObject(p, target) == IF target = "grid" THEN p.grid ELSE p.copy[1]

InitBuffer ==
  /\ probe = [pc |-> "buffer", heap |-> <<NewGrid(BufferWidth, BufferHeight).cells>>, grid |-> [width |-> BufferWidth, height |-> BufferHeight, cells |-> 1], copy |-> <<>>, last |-> NoCall, calls |-> 0]
  /\ solver = Idle /\ twin = Idle /\ collection = Idle /\ peer = Idle /\ mathRandom = 0

BufferSet ==
  /\ probe.pc = "buffer" /\ probe.calls < MaxCalls
  /\ \E target \in BufferTargets(probe), pt \in BufferPoints, value \in BufferValues :
       LET b == BufferObject(probe, target)
       IN  probe' = [probe EXCEPT !.heap[b.cells] = set(Buffer(probe.heap, b), pt[1], pt[2], value).cells,
                                  !.last = [NoCall EXCEPT !.op = "set", !.target = target, !.x = pt[1], !.y = pt[2], !.value = value, !.before = probe.heap],
                                  !.calls = @ + 1]
  /\ UNCHANGED <<solver, twin, genePart>>

BufferGet ==
  /\ probe.pc = "buffer" /\ probe.calls < MaxCalls
  /\ \E target \in BufferTargets(probe), pt \in BufferPoints :
       LET b == BufferObject(probe, target)
       IN  probe' = [probe EXCEPT !.last = [NoCall EXCEPT !.op = "get", !.target = target, !.x = pt[1], !.y = pt[2], !.returned = get(Buffer(probe.heap, b), pt[1], pt[2]), !.before = probe.heap],
                                  !.calls = @ + 1]
  /\ UNCHANGED <<solver, twin, genePart>>

BufferClone ==
  /\ probe.pc = "buffer" /\ probe.calls < MaxCalls /\ probe.copy = <<>>
  /\ LET made == cloneBuffer(probe.heap, probe.grid)
     IN  probe' = [probe EXCEPT !.heap = made.heap, !.copy = <<made.copy>>,
                                !.last = [NoCall EXCEPT !.op = "clone", !.before = probe.heap],
                                !.calls = @ + 1]
  /\ UNCHANGED <<solver, twin, genePart>>

BufferClear ==
  /\ probe.pc = "buffer" /\ probe.calls < MaxCalls
  /\ \E target \in BufferTargets(probe) :
       LET b == BufferObject(probe, target)
       IN  probe' = [probe EXCEPT !.heap[b.cells] = clear(Buffer(probe.heap, b)).cells,
                                  !.last = [NoCall EXCEPT !.op = "clear", !.target = target, !.before = probe.heap],
                                  !.calls = @ + 1]
  /\ UNCHANGED <<solver, twin, genePart>>

BufferRasterize ==
  /\ probe.pc = "buffer" /\ probe.calls < MaxCalls
  /\ \E target \in BufferTargets(probe), polygon \in Polygons :
       LET b == BufferObject(probe, target)
       IN  probe' = [probe EXCEPT !.heap[b.cells] = rasterizePolygon(Buffer(probe.heap, b), polygon).cells,
                                  !.last = [NoCall EXCEPT !.op = "rasterize", !.target = target, !.polygon = polygon, !.before = probe.heap],
                                  !.calls = @ + 1]
  /\ UNCHANGED <<solver, twin, genePart>>

NextBuffer ==
  \/ BufferSet
  \/ BufferGet
  \/ BufferClone
  \/ BufferClear
  \/ BufferRasterize

SpecBuffer == InitBuffer /\ [][NextBuffer]_vars

(***************************************************************************)
(* EvolutionarySolver (src/core/solvers/EvolutionarySolver.ts): a          *)
(* population of variants driven by step().  A variant is modelled by its  *)
(* id and its fitness; the room rectangles, which physics and mutation     *)
(* move and resize, take no part in the bookkeeping of step() and are left *)
(* out, and calculateFitness, which reads them, assigns any value of       *)
(* FitnessValues.                                                          *)
(***************************************************************************)
PHYSICS_STEPS_PER_CYCLE == 10

MaxPopulation == 3

MaxSteps == 21

FitnessValues == 0 .. 2

\* cloneVariant(original, newId): the copy keeps the fitness of the original
cloneVariant(original, newId) == [id |-> newId, fitness |-> original.fitness]

\* initializePopulation(): populationSize base variants of fitness Infinity,
\* then one mutated clone of each
initializeVariants(populationSize) ==
  LET base == Array([i \in 1 .. populationSize |-> [id |-> <<0, "var", i - 1>>, fitness |-> <<>>]])
  IN  base \o Array([i \in 1 .. populationSize |-> cloneVariant(base[i], <<0, "mutated", i - 1>>)])

\* new EvolutionarySolver(rooms, boundary, adjacencies, config)
NewEvolutionarySolver(populationSize) ==
  [pc |-> "evolving", config |-> [populationSize |-> populationSize],
   population |-> initializeVariants(populationSize),
   currentGeneration |-> 0, physicsStepCounter |-> 0, calls |-> 0]

\* The refill of step(): populationSize copies of the survivors taken round
\* robin, then one mutated clone of each copy
refillVariants(survivors, populationSize, generation) ==
  LET copies == Array([i \in 1 .. populationSize |->
                         cloneVariant(survivors[((i - 1) % Len(survivors)) + 1], <<generation, "var", i - 1>>)])
  IN  copies \o Array([i \in 1 .. populationSize |-> cloneVariant(copies[i], <<generation, "mutated", i - 1>>)])

evolutionaryStepLate(e, fitness) ==
  LET counter == e.physicsStepCounter + 1
  IN  IF counter > PHYSICS_STEPS_PER_CYCLE
      THEN LET generation == e.currentGeneration + 1
               scored == Array([i \in 1 .. Len(e.population) |-> [e.population[i] EXCEPT !.fitness = <<fitness[i]>>]])
               sorted == StableSort(scored, Array([i \in 1 .. Len(scored) |-> scored[i].fitness]))
               survivors == SubSeq(sorted, 1, CeilDiv(Len(sorted), 2))
           IN  [e EXCEPT !.currentGeneration = generation, !.physicsStepCounter = 0,
                         !.population = refillVariants(survivors, e.config.populationSize, generation),
                         !.calls = @ + 1]
      ELSE [e EXCEPT !.physicsStepCounter = counter, !.calls = @ + 1]

\* step(): one physics step on every variant; on the tenth, fitness
\* evaluation, sort, culling to the better half, refill and mutation
evolutionaryStep(e, fitness) ==
  LET counter == e.physicsStepCounter + 1
  IN  IF counter >= PHYSICS_STEPS_PER_CYCLE
      THEN LET generation == e.currentGeneration + 1
               scored == Array([i \in 1 .. Len(e.population) |-> [e.population[i] EXCEPT !.fitness = <<fitness[i]>>]])
               sorted == StableSort(scored, Array([i \in 1 .. Len(scored) |-> scored[i].fitness]))
               survivors == SubSeq(sorted, 1, CeilDiv(Len(sorted), 2))
           IN  [e EXCEPT !.currentGeneration = generation, !.physicsStepCounter = 0,
                         !.population = refillVariants(survivors, e.config.populationSize, generation),
                         !.calls = @ + 1]
      ELSE [e EXCEPT !.physicsStepCounter = counter, !.calls = @ + 1]

InitEvolution ==
  /\ \E populationSize \in 1 .. MaxPopulation : probe = NewEvolutionarySolver(populationSize)
  /\ solver = Idle /\ twin = Idle /\ collection = Idle /\ peer = Idle /\ mathRandom = 0

Step ==
  /\ probe.pc = "evolving" /\ probe.calls < MaxSteps
  /\ \E fitness \in [1 .. Len(probe.population) -> FitnessValues] : probe' = evolutionaryStep(probe, fitness)
  /\ UNCHANGED <<solver, twin, genePart>>

NextEvolution == Step

SpecEvolution == InitEvolution /\ [][NextEvolution]_vars

(***************************************************************************)
(* Vocabulary of the properties.                                           *)
(***************************************************************************)
Cells(g) == {Pt(x, y) : x \in 0 .. g.width - 1, y \in 0 .. g.height - 1}

CorridorSet(g) == {c \in Cells(g) : get(g, c.x, c.y) = CELL_CORRIDOR}

\* The corridor cells joined to the cells of reached by 4-connected corridor steps
RECURSIVE Closure(_, _)
Closure(g, reached) ==
  LET more == {c \in CorridorSet(g) \ reached :
                 \E r \in reached : c \in Neighbors4(r.x, r.y)}
  IN  IF more = {} THEN reached ELSE Closure(g, reached \cup more)

\* The corridor cells reachable from start, none when start is no corridor
ReachableFrom(g, start) ==
  IF get(g, start.x, start.y) = CELL_CORRIDOR THEN Closure(g, {start}) ELSE {}

Attached(g, start) == CorridorSet(g) \subseteq ReachableFrom(g, start)

\* The entrance of a run: the configured start point, else the grid centre
Entrance(s) ==
  IF s.given.config.startPoint # <<>>
    THEN s.given.config.startPoint[1]
    ELSE Pt(s.grid.width \div 2, s.grid.height \div 2)

UniqueIds(rooms) ==
  \A i, j \in 1 .. Len(rooms) : rooms[i].id = rooms[j].id => i = j

Solved(s) == s.pc \in {"done", "validated"}

NoDeadEnd(g) ==
  \A c \in CorridorSet(g) : countNonEmptyNeighbors(g, c.x, c.y) >= 2

\* The core rectangle of a placed-rooms record
CoreOf(r) == coreCells(r.x, r.y, r.width, r.height)

\* The placed-rooms records whose core rectangle holds the cell c
Owners(s, c) == {i \in 1 .. Len(s.placedRooms) : c \in CoreOf(s.placedRooms[i])}

(***************************************************************************)
(* C1: after solve() has returned, every corridor cell of the returned     *)
(* grid is reachable from the entrance cell through 4-connected corridor   *)
(* cells.                                                                  *)
(***************************************************************************)
C1_NetworkAttached ==
  Solved(solver) => Attached(solver.result[1], Entrance(solver))

(***************************************************************************)
(* C2: in every state of a run whose requests carry distinct ids, a cell   *)
(* holding k >= 1 lies in the core rectangle of exactly one placed room,   *)
(* and that room is the request of index k.                                *)
(***************************************************************************)
C2_RoomExclusivity ==
  (solver.pc # "idle" /\ UniqueIds(solver.rooms)) =>
    \A c \in Cells(solver.grid) :
      get(solver.grid, c.x, c.y) >= 1 =>
        /\ Cardinality(Owners(solver, c)) = 1
        /\ \A i \in Owners(solver, c) :
             roomIndexOf(solver.rooms, solver.placedRooms[i].id)
               = get(solver.grid, c.x, c.y)

\* A refinement round has removed a room and put it back beside another one
C2_Witness ==
  /\ solver.pc = "replace"
  /\ UniqueIds(solver.rooms)
  /\ solver.iter >= 1
  /\ solver.idx > 1
  /\ Len(solver.placedRooms) = 2
  /\ \E c \in Cells(solver.grid) : get(solver.grid, c.x, c.y) = 2

\* The request the next placement step tries to place
AttemptedRoom(s) ==
  IF s.pc = "greedy" THEN s.sortedRooms[s.idx] ELSE s.unplacedRooms[s.idx]

\* The grid s has a corridor cell beside some footprint cell of the record r
Magnetized(s, r) ==
  \E c \in corridorCells(r.x, r.y, r.width, r.height, r.corridorRule) :
    \E nb \in Neighbors4(c.x, c.y) : get(s.grid, nb.x, nb.y) = CELL_CORRIDOR

(***************************************************************************)
(* C3: every step of solve() that stamps a room whose corridor rule is not *)
(* NONE, in the greedy pass or in a refinement round, starts from a grid   *)
(* in which some cell of the room's footprint has a 4-neighbour holding -1.*)
(***************************************************************************)
C3_Magnetizing ==
  [][(/\ stepName(solver) \in {"greedyPlace", "replaceOne"}
      /\ solver'.placedRooms # solver.placedRooms)
       => LET r == Lookup(solver'.placedRooms, AttemptedRoom(solver).id)
          IN  r.corridorRule # 0 => Magnetized(solver, r)]_vars

\* A refinement round has put back a room that carries a corridor rule
C3_Witness ==
  /\ solver.pc = "replace"
  /\ solver.iter >= 1
  /\ solver.idx > 1
  /\ Has(solver.placedRooms, solver.unplacedRooms[solver.idx - 1].id)
  /\ solver.unplacedRooms[solver.idx - 1].corridorRule # 0

(***************************************************************************)
(* C9: a solver constructed with a start point inside the grid has -1 in   *)
(* that cell and validates from it; the grid centre is marked and used     *)
(* only when no start point is configured.                                 *)
(***************************************************************************)
C9_StartCell ==
  (solver.pc = "constructed" /\ solver.given.config.startPoint # <<>>) =>
    LET start == solver.given.config.startPoint[1]
        centre == Pt(solver.grid.width \div 2, solver.grid.height \div 2)
    IN  InRange(solver.grid, start.x, start.y) =>
          /\ get(solver.grid, start.x, start.y) = CELL_CORRIDOR
          /\ startCell(solver.grid, solver.config) = start
          /\ start # centre => get(solver.grid, centre.x, centre.y) # CELL_CORRIDOR

\* A single NONE-rule room of ratio 1.0 whose derived size is the grid's
ExactFit(s) ==
  /\ Len(s.rooms) = 1
  /\ s.rooms[1].corridorRule = 0
  /\ s.rooms[1].minRatio = 10 /\ s.rooms[1].maxRatio = 10
  /\ s.grid.width = s.grid.height
  /\ s.rooms[1].targetArea = s.grid.width * s.grid.height
  /\ \A c \in Cells(s.grid) : get(s.grid, c.x, c.y) # CELL_OUT_OF_BOUNDS

(***************************************************************************)
(* C10: for a square boundary and a single NONE-rule room of ratio 1.0     *)
(* whose area is the grid's, solve() places the room over the whole grid   *)
(* and the returned grid holds no corridor cell.                           *)
(***************************************************************************)
C10_SingleRoomFeasible ==
  (Solved(solver) /\ ExactFit(solver)) =>
    /\ Len(solver.placedRooms) = 1
    /\ \A c \in Cells(solver.result[1]) : get(solver.result[1], c.x, c.y) = 1
    /\ CorridorSet(solver.result[1]) = {}

(***************************************************************************)
(* C4: on every grid, validateCorridorNetwork() returns true exactly when  *)
(* the number of corridor cells reachable from the start cell through      *)
(* 4-connected corridor cells is the number of corridor cells of the grid. *)
(***************************************************************************)
C4_ValidateIffAllReached ==
  probe.pc = "validated" =>
    (probe.validated <=>
       Cardinality(ReachableFrom(probe.grid, startCell(probe.grid, probe.config)))
         = Cardinality(CorridorSet(probe.grid)))

(***************************************************************************)
(* C5: if every corridor cell is reachable from the start cell before      *)
(* pruneDeadEnds(), every corridor cell left after it is still reachable   *)
(* from the start cell through corridor cells.                             *)
(***************************************************************************)
C5_PruneKeepsAttached ==
  (probe.pc = "pruned"
     /\ Attached(probe.before, startCell(probe.before, probe.config))) =>
    Attached(probe.grid, startCell(probe.grid, probe.config))

(***************************************************************************)
(* C6: after pruneDeadEnds() has returned, on any grid, no corridor cell   *)
(* has fewer than two 4-neighbours that are neither empty nor out of       *)
(* bounds; the grid solve() returns has none either.                       *)
(***************************************************************************)
C6_PruningFixpoint ==
  /\ probe.pc = "pruned" => NoDeadEnd(probe.grid)
  /\ Solved(solver) => NoDeadEnd(solver.result[1]) /\ NoDeadEnd(solver.grid)

\* Pruning took dead ends away and left corridor cells behind
C6_Witness ==
  \/ /\ probe.pc = "pruned"
     /\ CorridorSet(probe.grid) # {}
     /\ Cardinality(CorridorSet(probe.before)) >= Cardinality(CorridorSet(probe.grid)) + 2
  \/ /\ Solved(solver)
     /\ CorridorSet(solver.result[1]) # {}
     /\ Cardinality(CorridorSet(solver.snapshot[1]))
          > Cardinality(CorridorSet(solver.result[1]))

SameGenes(a, b) ==
  /\ Len(a.genes) = Len(b.genes)
  /\ \A i \in 1 .. Len(a.genes) :
       /\ i <= Len(b.genes)
       /\ a.genes[i].fitness = b.genes[i].fitness
       /\ Len(a.genes[i].rooms) = Len(b.genes[i].rooms)
       /\ \A k \in 1 .. Len(a.genes[i].rooms) :
            /\ a.genes[i].rooms[k].x = b.genes[i].rooms[k].x
            /\ a.genes[i].rooms[k].y = b.genes[i].rooms[k].y

(***************************************************************************)
(* C8: two gene collections built from the same arguments have, after the  *)
(* same number of iterate() calls (one or more) on each, the same fitness  *)
(* and the same room positions gene by gene.                               *)
(***************************************************************************)
C8_ContinuousDeterminism ==
  (collection.calls >= 1 /\ collection.calls = peer.calls) => SameGenes(collection, peer)

\* The input the constructor is documented to accept
ValidInput(boundary, rooms, adjacencies) ==
  /\ Len(boundary) >= 3
  /\ \A i \in 1 .. Len(rooms) : rooms[i].targetArea > 0
  /\ UniqueIds(rooms)
  /\ \A k \in 1 .. Len(adjacencies) :
       /\ \E i \in 1 .. Len(rooms) : rooms[i].id = adjacencies[k].a
       /\ \E i \in 1 .. Len(rooms) : rooms[i].id = adjacencies[k].b

(***************************************************************************)
(* C11: a construction from a boundary of fewer than 3 vertices, a room    *)
(* without positive area, a repeated room id or an adjacency naming an     *)
(* unknown id fails, so that no solver with a grid and a placed-rooms map  *)
(* ever exists for such input.                                             *)
(***************************************************************************)
C11_InvalidInputRejected ==
  solver.pc # "idle" =>
    ValidInput(solver.given.boundary, solver.rooms, solver.adjacencies)

\* The request is too wide or too high for the grid at every ratio the
\* generator can draw for it
Oversize(s, room) ==
  \A r2 \in 0 .. RngMod - 1 :
    LET num == room.minRatio * RngMod + r2 * (room.maxRatio - room.minRatio)
        width == CeilSqrtFrom(0, s.config.gridResolution, num, room.targetArea * 10 * RngMod)
        height == CeilDiv(room.targetArea,
                          width * s.config.gridResolution * s.config.gridResolution)
    IN  width > s.grid.width \/ height > s.grid.height

\* Every request that carries the id is oversize
NeverFits(s, id) ==
  \A i \in 1 .. Len(s.rooms) : s.rooms[i].id = id => Oversize(s, s.rooms[i])

\* A bound on the steps solve() has yet to take: the turns left in the loop
\* it is in, then the rounds left at 2 * |rooms| + 3 steps each, then the
\* pruning
StepsLeft(s) ==
  LET round == 2 * Len(s.rooms) + 3
      rounds == s.config.maxIterations - s.iter
  IN  CASE s.pc = "constructed" ->
             Len(s.rooms) + 3 + s.config.maxIterations * round
        [] s.pc = "greedy" ->
             (Len(s.sortedRooms) + 1 - s.idx) + 2 + s.config.maxIterations * round
        [] s.pc = "loop" -> 1 + rounds * round
        [] s.pc = "remove" -> Len(s.toRemove) + Len(s.rooms) + 3 + (rounds - 1) * round
        [] s.pc = "replace" -> (Len(s.unplacedRooms) + 1 - s.idx) + 2 + (rounds - 1) * round
        [] OTHER -> 0

(***************************************************************************)
(* C12: solve() returns on every input: each of its steps brings the       *)
(* return nearer and leaves a next step to take until it has returned.  A  *)
(* step puts a room into placed_rooms only at a position that passes the   *)
(* placement validity test on the grid of that moment, and a room that is  *)
(* too large for the grid at every ratio is never a key of placed_rooms.   *)
(***************************************************************************)
C12_UnplaceableAbsent ==
  [][/\ ~Solved(solver) =>
          /\ StepsLeft(solver') < StepsLeft(solver)
          /\ StepsLeft(solver') >= 0
          /\ Solved(solver') \/ stepName(solver') # "none"
     /\ (/\ stepName(solver) \in {"greedyPlace", "replaceOne"}
         /\ solver'.placedRooms # solver.placedRooms)
          => LET r == Lookup(solver'.placedRooms, AttemptedRoom(solver).id)
             IN  canPlaceRoom(solver.grid, r.x, r.y, r.width, r.height, r.corridorRule)
     /\ \A i \in 1 .. Len(solver'.rooms) :
          NeverFits(solver', solver'.rooms[i].id)
            => ~Has(solver'.placedRooms, solver'.rooms[i].id)]_vars

\* solve() has returned with one room placed and an oversize room left out
C12_Witness ==
  /\ Solved(solver)
  /\ Len(solver.placedRooms) >= 1
  /\ \E i \in 1 .. Len(solver.rooms) :
       /\ Oversize(solver, solver.rooms[i])
       /\ ~Has(solver.placedRooms, solver.rooms[i].id)

\* The cells the rasterization of the boundary marks out of bounds
OutsideCells(s) ==
  {c \in Cells(s.grid) :
     get(rasterizePolygon(NewGrid(s.grid.width, s.grid.height), s.given.boundary), c.x, c.y)
       = CELL_OUT_OF_BOUNDS}

\* The grid the constructor left
ConstructedGrid(s) ==
  Construct(s.given.boundary, s.rooms, s.adjacencies, s.given.config, s.given.seed, 0).grid

(***************************************************************************)
(* C13: in every state of solve(), no cell of the core rectangle or of the *)
(* corridor footprint of a placed room is a cell the rasterization marked  *)
(* -2, and every cell that held -2 after construction still holds -2.      *)
(***************************************************************************)
C13_OutsideUntouched ==
  solver.pc # "idle" =>
    /\ \A i \in 1 .. Len(solver.placedRooms) :
         LET r == solver.placedRooms[i]
         IN  (CoreOf(r) \cup corridorCells(r.x, r.y, r.width, r.height, r.corridorRule))
               \cap OutsideCells(solver) = {}
    /\ \A c \in Cells(solver.grid) :
         get(ConstructedGrid(solver), c.x, c.y) = CELL_OUT_OF_BOUNDS
           => get(solver.grid, c.x, c.y) = CELL_OUT_OF_BOUNDS

\* The buffer the last call was made on, as it was before the call and as it
\* is after it.
LastObject == BufferObject(probe, probe.last.target)
LastBefore == Buffer(probe.last.before, LastObject)
LastAfter == Buffer(probe.heap, LastObject)
LastInRange == InRange(LastObject, probe.last.x, probe.last.y)

\* C14: a get at coordinates out of range returns CELL_OUT_OF_BOUNDS (-2),
\* and a set at coordinates out of range returns normally and leaves every
\* cell of every array as it was, the cells of the other rows included.
C14_OutOfRangeSilent ==
  (probe.pc = "buffer" /\ probe.last.op \in {"get", "set"} /\ ~LastInRange) =>
    /\ probe.last.op = "get" => probe.last.returned = CELL_OUT_OF_BOUNDS
    /\ probe.last.op = "set" => probe.heap = probe.last.before

\* A set at (-1, 1), whose index falls on the cell (2, 0), on a grid that holds
\* something.
C14_Witness ==
  /\ probe.pc = "buffer" /\ probe.last.op = "set"
  /\ probe.last.x = -1 /\ probe.last.y = 1
  /\ \E k \in DOMAIN LastAfter.cells : LastAfter.cells[k] # CELL_EMPTY
  /\ LastAfter.cells[BufferWidth - 1] # probe.last.value

\* C15: after a set at coordinates in range, get at the same coordinates
\* returns the value written, and get at every other cell of the grid returns
\* what it returned before the set.
C15_SetGetRoundTrip ==
  (probe.pc = "buffer" /\ probe.last.op = "set" /\ LastInRange) =>
    /\ get(LastAfter, probe.last.x, probe.last.y) = probe.last.value
    /\ \A x \in 0 .. LastObject.width - 1, y \in 0 .. LastObject.height - 1 :
         <<x, y>> # <<probe.last.x, probe.last.y>> =>
           get(LastAfter, x, y) = get(LastBefore, x, y)

\* A set in range that changes its cell while another cell holds a value.
C15_Witness ==
  /\ probe.pc = "buffer" /\ probe.last.op = "set" /\ LastInRange
  /\ get(LastBefore, probe.last.x, probe.last.y) # probe.last.value
  /\ \E x \in 0 .. LastObject.width - 1, y \in 0 .. LastObject.height - 1 :
       /\ <<x, y>> # <<probe.last.x, probe.last.y>>
       /\ get(LastAfter, x, y) # CELL_EMPTY

\* C16: the buffer clone() returns has the width, the height and the cell
\* values of the original at the time of the call, and a later set on either
\* of the two leaves every cell of the other as it was.
C16_CloneIsDeepCopy ==
  (probe.pc = "buffer" /\ probe.copy # <<>>) =>
    LET original == probe.grid
        copy == probe.copy[1]
    IN  /\ probe.last.op = "clone" =>
             /\ copy.width = original.width
             /\ copy.height = original.height
             /\ probe.heap[copy.cells] = probe.last.before[original.cells]
             /\ probe.heap[original.cells] = probe.last.before[original.cells]
        /\ (probe.last.op = "set" /\ probe.last.target = "copy") =>
             probe.heap[original.cells] = probe.last.before[original.cells]
        /\ (probe.last.op = "set" /\ probe.last.target = "grid") =>
             probe.heap[copy.cells] = probe.last.before[copy.cells]

\* A set that changes a cell of the copy of a grid that holds something.
C16_Witness ==
  /\ probe.pc = "buffer" /\ probe.copy # <<>>
  /\ probe.last.op = "set" /\ probe.last.target = "copy"
  /\ probe.heap[probe.copy[1].cells] # probe.last.before[probe.copy[1].cells]
  /\ \E k \in DOMAIN probe.heap[probe.grid.cells] : probe.heap[probe.grid.cells][k] # CELL_EMPTY

\* C17: after clear() every cell of the buffer is CELL_EMPTY (0), whatever
\* set and rasterizePolygon calls came before, and its width and height are
\* what they were at construction.
C17_ClearResets ==
  (probe.pc = "buffer" /\ probe.last.op = "clear") =>
    /\ \A x \in 0 .. BufferWidth - 1, y \in 0 .. BufferHeight - 1 : get(LastAfter, x, y) = CELL_EMPTY
    /\ \A k \in DOMAIN LastAfter.cells : LastAfter.cells[k] = CELL_EMPTY
    /\ DOMAIN LastAfter.cells = 0 .. BufferWidth * BufferHeight - 1
    /\ LastAfter.width = BufferWidth
    /\ LastAfter.height = BufferHeight

\* A clear of a buffer that held both a cell out of bounds and a cell that a
\* set wrote.
C17_Witness ==
  /\ probe.pc = "buffer" /\ probe.last.op = "clear"
  /\ \E k \in DOMAIN LastBefore.cells : LastBefore.cells[k] = CELL_OUT_OF_BOUNDS
  /\ \E k \in DOMAIN LastBefore.cells : LastBefore.cells[k] \in BufferValues

\* The point (px/2, py/2) lies inside the polygon: a ray from it straight up
\* meets an odd number of edges.  Cell centres have half-integer coordinates
\* and the vertices integer ones, so the ray passes through no vertex.
EdgeAbove(px, py, a, b) ==
  /\ (2 * a.x > px) # (2 * b.x > px)
  /\ IF b.x - a.x > 0
       THEN (px - 2 * a.x) * (2 * b.y - 2 * a.y) > (py - 2 * a.y) * (2 * b.x - 2 * a.x)
       ELSE (px - 2 * a.x) * (2 * b.y - 2 * a.y) < (py - 2 * a.y) * (2 * b.x - 2 * a.x)

InsidePolygon(px, py, polygon) ==
  Cardinality({i \in 1 .. Len(polygon) :
                 EdgeAbove(px, py, polygon[i], polygon[(i % Len(polygon)) + 1])}) % 2 = 1

\* C18: rasterizePolygon on a freshly constructed grid, with a polygon of at
\* least 3 vertices, leaves the cell (x, y) at CELL_OUT_OF_BOUNDS (-2) exactly
\* when its centre (x + 0.5, y + 0.5) is outside the polygon and at
\* CELL_EMPTY (0) otherwise, for convex and concave polygons; with fewer than
\* 3 vertices it leaves the grid as it was.
C18_RasterizeMarksOutside ==
  (probe.pc = "buffer" /\ probe.last.op = "rasterize" /\ LastBefore = NewGrid(BufferWidth, BufferHeight)) =>
    IF Len(probe.last.polygon) >= 3
      THEN \A x \in 0 .. BufferWidth - 1, y \in 0 .. BufferHeight - 1 :
             get(LastAfter, x, y) = IF InsidePolygon(2 * x + 1, 2 * y + 1, probe.last.polygon)
                                      THEN CELL_EMPTY
                                      ELSE CELL_OUT_OF_BOUNDS
      ELSE probe.heap = probe.last.before

\* The concave L-shape rasterized on a fresh grid: the cell (1, 1) in its
\* notch is out of bounds, the cell (0, 1) beside it is inside.
C18_Witness ==
  /\ probe.pc = "buffer" /\ probe.last.op = "rasterize"
  /\ LastBefore = NewGrid(BufferWidth, BufferHeight)
  /\ probe.last.polygon = LShape32
  /\ get(LastAfter, 1, 1) = CELL_OUT_OF_BOUNDS
  /\ get(LastAfter, 0, 1) = CELL_EMPTY

\* a <= b for fitness values, <<>> being Infinity
FitnessLeq(a, b) == b = <<>> \/ (a # <<>> /\ a[1] <= b[1])

\* An iterate() call after the first one, without fresh blood, that returned.
LaterIterate ==
  /\ collection.calls >= 1
  /\ collection'.calls = collection.calls + 1
  /\ ~collection.config.useFreshBlood
  /\ collection.genes # <<>> /\ collection'.genes # <<>>

\* C19: with fresh blood disabled, getBest().fitness after iterate() call
\* n + 1 is not greater than getBest().fitness after call n, for n >= 1.
C19_BestFitnessMonotone ==
  [][LaterIterate => FitnessLeq(getBest(collection').fitness, getBest(collection).fitness)]_vars

\* The rooms of every gene of a collection
RoomsOf(c) == {c.genes[g].rooms[r] : <<g, r>> \in {p \in (1 .. Len(c.genes)) \X (1 .. 3) : p[2] <= Len(c.genes[p[1]].rooms)}}

\* C20: the rooms a collection starts from have width >= 1 and height >= 1,
\* and after any sequence of mutate, applySquishCollisions and crossover calls
\* every room of every gene still has width >= 1 and height >= 1 (100
\* hundredths).
C20_RoomsAtLeastUnit ==
  \A c \in {collection, peer} :
    /\ \A i \in 1 .. Len(c.baseRooms) : c.baseRooms[i].width >= 100 /\ c.baseRooms[i].height >= 100
    /\ \A room \in RoomsOf(c) : room.width >= 100 /\ room.height >= 100

\* the genes are in ascending order of fitness
SortedByFitness(genes) ==
  \A i \in 1 .. Len(genes) - 1 : FitnessLeq(genes[i].fitness, genes[i + 1].fitness)

\* C21: when an iterate() call returns, with or without a fresh-blood
\* injection, the population is sorted ascending by fitness, so that the gene
\* at index 0 has the lowest fitness.
C21_PopulationSorted ==
  [][(collection'.calls = collection.calls + 1 /\ ~collection'.threw) =>
       SortedByFitness(collection'.genes)]_vars

\* gene has the rooms of the template, index by index
Aligned(gene, baseRooms) ==
  /\ Len(gene.rooms) = Len(baseRooms)
  /\ \A i \in 1 .. Len(baseRooms) :
       /\ gene.rooms[i].id = baseRooms[i].id
       /\ gene.rooms[i].targetArea = baseRooms[i].targetArea
       /\ gene.rooms[i].targetRatio = baseRooms[i].targetRatio

\* C22: after construction and after any number of iterate() calls, every gene
\* of a collection has as many rooms as the base template, and its room at
\* index i has the id, the target area and the target ratio of base room i.
C22_RoomListAligned ==
  \A c \in {collection, peer} :
    \A g \in 1 .. Len(c.genes) : Aligned(c.genes[g], c.baseRooms)

\* A collection that swaps, crosses over and injects fresh blood, after two
\* iterate() calls, with a gene whose first room has left its base position.
C22_Witness ==
  /\ collection.calls = 2 /\ ~collection.threw
  /\ collection.config.useSwapMutation /\ collection.config.useFreshBlood
  /\ collection.config.crossoverRate = 100
  /\ \E g \in 1 .. Len(collection.genes) :
       collection.genes[g].rooms[1].x # collection.baseRooms[1].x

\* The configuration is one the claim speaks of: a population of two genes
\* at least and rates between 0 and 1 (0 and 100 hundredths).
RatesInRange(config) ==
  /\ config.populationSize >= 2
  /\ config.crossoverRate \in 0 .. 100
  /\ config.selectionPressure \in 0 .. 100
  /\ config.mutationRate \in 0 .. 100

\* C23: for a configuration with populationSize >= 2 and crossoverRate,
\* selectionPressure and mutationRate within [0, 1], no iterate() call raises
\* an error, and each leaves a population that is not empty.
C23_IterateNeverFails ==
  \A c \in {collection, peer} :
    (RatesInRange(c.config) /\ c.calls >= 1) => (~c.threw /\ c.genes # <<>>)

\* The step that ends a refinement round, and the step that starts one.
RoundEnds == solver.pc = "replace" /\ solver'.pc = "loop"
RoundStarts == solver.pc = "loop" /\ solver'.pc = "remove"

\* C24: a round starts from the grid and the placed rooms it will revert to;
\* at its end either its global score strictly exceeds the best score seen
\* before it, and the mutated grid and placed rooms are kept and become the
\* best, or grid and placed rooms are those of the start of the round.  Hence
\* the best score never decreases, and between rounds the score of the
\* current layout is the best score.
C24_AcceptOrRevert ==
  [][/\ RoundStarts =>
          /\ solver'.snapshot = <<solver.grid>>
          /\ solver'.snapshotRooms = solver.placedRooms
     /\ (solver.pc \in {"remove", "replace"} /\ solver'.pc \in {"remove", "replace"}) =>
          /\ solver'.snapshot = solver.snapshot
          /\ solver'.snapshotRooms = solver.snapshotRooms
     /\ RoundEnds =>
          /\ \/ /\ calculateGlobalScore(solver) > solver.bestScore[1]
                /\ solver'.grid = solver.grid
                /\ solver'.placedRooms = solver.placedRooms
                /\ solver'.bestScore = <<calculateGlobalScore(solver)>>
                /\ solver'.bestGrid = <<solver.grid>>
             \/ /\ solver'.grid = solver.snapshot[1]
                /\ solver'.placedRooms = solver.snapshotRooms
                /\ solver'.bestScore = solver.bestScore
                /\ solver'.bestGrid = solver.bestGrid
          /\ solver'.bestScore[1] >= solver.bestScore[1]
          /\ calculateGlobalScore(solver') = solver'.bestScore[1]]_vars

\* Between two rounds, after a round that was accepted: the grid is no longer
\* the one the round started from.
C24_Witness ==
  /\ solver.pc = "loop" /\ solver.iter >= 1
  /\ solver.grid # solver.snapshot[1]
  /\ solver.bestGrid = <<solver.grid>>

\* The footprint (corridor strip) of a placed-rooms record
FootprintOf(r) ==
  IF r.corridorRule # 0 THEN corridorCells(r.x, r.y, r.width, r.height, r.corridorRule) ELSE {}

\* C25: the removal of a placed room deletes it from the placed rooms, leaves
\* 0 in every cell of its core, clears to 0 among its footprint cells only
\* cells that held -1, and leaves -1 in a corridor cell that also lies in the
\* footprint of another room that is still placed; every other cell keeps
\* its value.
C25_RemovalKeepsShared ==
  [][(stepName(solver) = "removeOne" /\ Has(solver.placedRooms, Head(solver.toRemove))) =>
       LET room == Lookup(solver.placedRooms, Head(solver.toRemove))
       IN  /\ ~Has(solver'.placedRooms, room.id)
           /\ \A c \in Cells(solver.grid) :
                LET before == get(solver.grid, c.x, c.y)
                    after == get(solver'.grid, c.x, c.y)
                IN  /\ c \in CoreOf(room) => after = CELL_EMPTY
                    /\ (c \in FootprintOf(room) \ CoreOf(room)) =>
                         /\ after \in {before, CELL_EMPTY}
                         /\ after # before => before = CELL_CORRIDOR
                         /\ (/\ before = CELL_CORRIDOR
                             /\ \E i \in 1 .. Len(solver'.placedRooms) :
                                  c \in FootprintOf(solver'.placedRooms[i]))
                              => after = CELL_CORRIDOR
                    /\ c \notin (CoreOf(room) \cup FootprintOf(room)) => after = before]_vars

\* The size findBestPlacement derives for room from the generator state of s
DerivedSize(s, room) ==
  LET num == room.minRatio * RngMod + RngNext(s.rng) * (room.maxRatio - room.minRatio)
      res == s.config.gridResolution
      width == CeilSqrtFrom(0, res, num, room.targetArea * 10 * RngMod)
  IN  [width |-> width, height |-> CeilDiv(room.targetArea, width * res * res)]

\* The score of room at (x, y) with size (w, h) on the grid of s
PlacementScore(s, room, x, y, w, h) ==
  calculateCompactness(s.grid, x, y, w, h) * s.config.weights.compactness * 100
    - calculateAdjacencyScore(s, room.id, 2 * x + w, 2 * y + h) * s.config.weights.adjacency

\* The positions (x, y) with 0 <= x <= width - w and 0 <= y <= height - h at
\* which room can be placed with size (w, h)
ValidPositions(s, room, w, h) ==
  {p \in Cells(s.grid) :
     /\ p.x <= s.grid.width - w /\ p.y <= s.grid.height - h
     /\ canPlaceRoom(s.grid, p.x, p.y, w, h, room.corridorRule)}

\* C26: for the derived size (w, h), findBestPlacement returns a valid
\* position with 0 <= x <= width - w and 0 <= y <= height - h whose score is
\* maximal among all valid positions of that range, the first in row-major
\* order among those of equal score, and returns none only when no position
\* of the range is valid.
C26_ExhaustiveFirstWins ==
  [][(/\ stepName(solver) \in {"greedyPlace", "replaceOne"}
      /\ AttemptedRoom(solver).targetArea > 0) =>
       LET room == AttemptedRoom(solver)
           size == DerivedSize(solver, room)
           valid == ValidPositions(solver, room, size.width, size.height)
           best == findBestPlacement(solver, room).candidate
           Score(p) == PlacementScore(solver, room, p.x, p.y, size.width, size.height)
       IN  IF best.found
             THEN /\ best.width = size.width /\ best.height = size.height
                  /\ Pt(best.x, best.y) \in valid
                  /\ \A p \in valid :
                       \/ Score(p) < best.score
                       \/ /\ Score(p) = best.score
                          /\ best.y * solver.grid.width + best.x <= p.y * solver.grid.width + p.x
             ELSE valid = {}]_vars

\* C27: for a configuration with crossoverRate and selectionPressure within
\* [0, 1], after each iterate() call the population has exactly
\* populationSize genes.
C27_PopulationSizeRestored ==
  \A c \in {collection, peer} :
    (c.calls >= 1 /\ c.config.crossoverRate \in 0 .. 100
       /\ c.config.selectionPressure \in 0 .. 100) =>
      Len(c.genes) = c.config.populationSize

\* C28: after construction and after every step() call the population of an
\* EvolutionarySolver holds exactly 2 * populationSize variants, after k calls
\* currentGeneration = floor(k / 10) and physicsStepCounter = k mod 10, and a
\* call replaces the population (new ids of the new generation) on every
\* tenth call and leaves ids and fitness alone on every other call.
Evolving == probe.pc = "evolving"

C28_StepCycle ==
  [][(Evolving /\ probe'.calls = probe.calls + 1) =>
       /\ Len(probe.population) = 2 * probe.config.populationSize
       /\ Len(probe'.population) = 2 * probe.config.populationSize
       /\ probe'.currentGeneration = probe'.calls \div PHYSICS_STEPS_PER_CYCLE
       /\ probe'.physicsStepCounter = probe'.calls % PHYSICS_STEPS_PER_CYCLE
       /\ IF probe'.calls % PHYSICS_STEPS_PER_CYCLE = 0
          THEN \A i \in 1 .. Len(probe'.population) :
                 /\ probe'.population[i].id[1] = probe'.currentGeneration
                 /\ probe'.population[i].fitness # <<>>
          ELSE probe'.population = probe.population]_vars

\* Twenty calls made: two cycles done, with variants of the second generation
C28_Witness ==
  /\ Evolving /\ probe.calls = 2 * PHYSICS_STEPS_PER_CYCLE
  /\ probe.config.populationSize = 2 /\ probe.currentGeneration = 2
  /\ Len(probe.population) = 4 /\ probe.population[4].id = <<2, "mutated", 1>>

\* C29: when solve() has returned, the returned grid and the grid of getGrid()
\* are cell-for-cell equal, and both agree with getPlacedRooms(): a cell holds
\* an index k >= 1 exactly when it lies in the core rectangle of the placed
\* room whose roomIndex is k.
InCoreOfIndex(s, c, k) ==
  \E i \in 1 .. Len(s.placedRooms) :
    /\ roomIndexOf(s.rooms, s.placedRooms[i].id) = k
    /\ c \in CoreOf(s.placedRooms[i])

AgreesWithPlacedRooms(s, g) ==
  /\ \A i \in 1 .. Len(s.placedRooms) : CoreOf(s.placedRooms[i]) \subseteq Cells(g)
  /\ \A c \in Cells(g), k \in 1 .. Len(s.rooms) :
       get(g, c.x, c.y) = k <=> InCoreOfIndex(s, c, k)

C29_ObserversAgree ==
  Solved(solver) =>
    /\ solver.result[1] = solver.grid
    /\ AgreesWithPlacedRooms(solver, solver.grid)
    /\ AgreesWithPlacedRooms(solver, solver.result[1])

\* C30: from construction until pruning starts, in every state reached by
\* greedy placement and by the refinement rounds of solve(), the start cell
\* (the cell the constructor marked and the network validation starts from)
\* holds -1.
BeforePruning(s) == s.pc \in {"constructed", "greedy", "loop", "remove", "replace"}

C30_AnchorPersists ==
  BeforePruning(solver) =>
    LET start == startCell(solver.grid, solver.config)
    IN  get(solver.grid, start.x, start.y) = CELL_CORRIDOR

====
